---- MODULE Spec2Model ----
(***************************************************************************)
(* DrawBridge floppy bridge of 86Box: the serial protocol engine           *)
(* (src/src/floppy/drawbridge.c) and the device adapter that drives it     *)
(* (src/unnamed/part_003, the fdd_drawbridge implementation).              *)
(*                                                                         *)
(* Characters are modelled as one-character strings, the diagnostic codes  *)
(* and last-command tags as the suffix of their enum name.                 *)
(***************************************************************************)
EXTENDS Integers, Sequences, FiniteSets, TLC

VARIABLES
    priv,        \* ArduinoInterfacePrivate: the protocol session
    io,          \* transport calls made by the operation in progress / last completed
    last,        \* the last completed engine operation and the code it returned
    sync,        \* open_port / attempt_to_sync in progress: position and locals
    stream,      \* read_current_track in progress: position and locals
    hw,          \* the device at the other end of the serial line (environment)
    dev,         \* drawbridge_t: the device adapter's state
    fdc          \* the adapter operation in progress (seek loop position) and its record

vars == <<priv, io, last, sync, stream, hw, dev, fdc>>

----------------------------------------------------------------------------
(* Program constants *)

COMMAND_VERSION          == "?"
COMMAND_REWIND           == "."
COMMAND_GOTOTRACK        == "#"
COMMAND_HEAD0            == "["
COMMAND_HEAD1            == "]"
COMMAND_READTRACK        == "<"
COMMAND_ENABLE           == "+"
COMMAND_DISABLE          == "-"
COMMAND_SWITCHTO_DD      == "D"
COMMAND_SWITCHTO_HD      == "H"
COMMAND_READTRACKSTREAM  == "{"
COMMAND_CHECKDISKEXISTS  == "^"
COMMAND_ENABLE_NOWAIT    == "*"
COMMAND_CHECK_DENSITY    == "T"
COMMAND_CHECK_FEATURES   == "@"
COMMAND_RESET            == "R"
COMMAND_DIAGNOSTICS      == "&"
SPECIAL_ABORT_CHAR       == "x"

NUL     == "NUL"       \* the character '\0'
NoByte  == "none"      \* serial_read returned 0 bytes within its timeout

FLAGS_DENSITYDETECT_ENABLED == 8
RAW_TRACKDATA_LENGTH_DD == 13888       \* 0x1900*2+0x440
RAW_TRACKDATA_LENGTH_HD == 27776       \* 2*RAW_TRACKDATA_LENGTH_DD
MaxTrackIndex   == 83
SyncDataLimit   == 2048
SyncNoDataLimit == 120
SyncKickPeriod  == 7
SyncKickPhase   == 6
StreamFailLimit == 30
ReadFailLimit   == 4

----------------------------------------------------------------------------
(* Transport: serial_write / serial_read / device_read.  Every call that   *)
(* reaches the file descriptor is one event of the log.                    *)

WriteEv(data) == [k |-> "w", d |-> data]
ReadEv        == [k |-> "r", d |-> ""]
DigitChar == <<"0", "1", "2", "3", "4", "5", "6", "7", "8", "9">>
\* c - '0' for a decimal digit character
DigitValue(c) == CHOOSE i \in 0..9 : DigitChar[i + 1] = c
\* sprintf(buf, "%c%02i", COMMAND_GOTOTRACK, trackIndex)
TrackText(trackIndex) ==
    COMMAND_GOTOTRACK \o DigitChar[(trackIndex \div 10) + 1] \o DigitChar[(trackIndex % 10) + 1]

\* serial_write: -1 without touching the descriptor when the port is not open,
\* otherwise the number of bytes the transport accepted (res)
serial_write(p, data, res) ==
    IF ~p.isOpen THEN [n |-> -1, ev |-> <<>>]
    ELSE [n |-> res, ev |-> <<WriteEv(data)>>]

\* serial_read of one byte: -1 when the port is not open, else 0 or 1 byte
serial_read(p, r) ==
    IF ~p.isOpen THEN [n |-> -1, b |-> NoByte, ev |-> <<>>]
    ELSE [n |-> IF r = NoByte THEN 0 ELSE 1, b |-> r, ev |-> <<ReadEv>>]

\* device_read(priv, target, 1, failIfNotAllRead): the count is compared as an
\* unsigned long, so -1 (port closed) is not "less than numBytes"
device_read(p, r, failIfNotAllRead) ==
    LET sr == serial_read(p, r) IN
    IF sr.n = 0
    THEN [ok |-> ~failIfNotAllRead, b |-> NUL, got |-> FALSE, ev |-> sr.ev]
    ELSE [ok |-> TRUE, b |-> sr.b, got |-> sr.n = 1, ev |-> sr.ev]

----------------------------------------------------------------------------
(* run_command *)

EvalResponse(response) ==
    CASE response = "1" -> "OK"
      [] response = "0" -> "ERROR"
      [] OTHER          -> "STATUS_ERROR"

\* variant: a refused parameter byte does not end the exchange
run_command_unchecked_parameter(p, command, parameter, a) ==
    LET sw1 == serial_write(p, command, a.w1) IN
    IF sw1.n # 1
    THEN [p |-> p, ret |-> "SEND_FAILED", resp |-> NoByte, ev |-> sw1.ev]
    ELSE
    LET sw2 == IF parameter # NUL THEN serial_write(p, parameter, a.w2)
               ELSE [n |-> 1, ev |-> <<>>]
        dr  == device_read(p, a.r, TRUE)
    IN
    IF ~dr.ok
    THEN [p |-> p, ret |-> "READ_RESPONSE_FAILED", resp |-> NoByte,
          ev |-> sw1.ev \o sw2.ev \o dr.ev]
    ELSE [p |-> [p EXCEPT !.lastError = EvalResponse(dr.b)],
          ret |-> EvalResponse(dr.b), resp |-> dr.b,
          ev |-> sw1.ev \o sw2.ev \o dr.ev]

\* a: [w1, w2: bytes accepted by the two writes, r: the byte read or NoByte]
run_command(p, command, parameter, a) ==
    LET sw1 == serial_write(p, command, a.w1) IN
    IF sw1.n # 1
    THEN [p |-> p, ret |-> "SEND_FAILED", resp |-> NoByte, ev |-> sw1.ev]
    ELSE
    LET sw2 == IF parameter # NUL THEN serial_write(p, parameter, a.w2)
               ELSE [n |-> 1, ev |-> <<>>] IN
    IF sw2.n # 1
    THEN [p |-> p, ret |-> "SEND_PARAMETER_FAILED", resp |-> NoByte,
          ev |-> sw1.ev \o sw2.ev]
    ELSE
    LET dr == device_read(p, a.r, TRUE) IN
    IF ~dr.ok
    THEN [p |-> p, ret |-> "READ_RESPONSE_FAILED", resp |-> NoByte,
          ev |-> sw1.ev \o sw2.ev \o dr.ev]
    ELSE [p |-> [p EXCEPT !.lastError = EvalResponse(dr.b)],
          ret |-> EvalResponse(dr.b), resp |-> dr.b,
          ev |-> sw1.ev \o sw2.ev \o dr.ev]

----------------------------------------------------------------------------
(* arduino_interface_create: the session after construction *)

NoVersion == [major |-> 0, minor |-> 0, fullControlMod |-> FALSE,
              deviceFlags1 |-> 0, deviceFlags2 |-> 0, buildNumber |-> 0]

arduino_interface_create ==
    [isOpen |-> FALSE, version |-> NoVersion, inWriteMode |-> FALSE,
     lastCommand |-> "GET_VERSION", lastError |-> "OK",
     abortStreaming |-> TRUE, isWriteProtected |-> FALSE, diskInDrive |-> FALSE,
     abortSignalled |-> FALSE, isStreaming |-> FALSE, isHDMode |-> FALSE]

----------------------------------------------------------------------------
(* Engine operations.  Each is the whole C function: it maps the session   *)
(* and the transport's answers to the new session, the code returned and   *)
(* the transport calls made.                                               *)

Result(p, ret, ev) == [p |-> p, ret |-> ret, ev |-> ev]

\* priv->lastError = <call>; return priv->lastError;
Returned(rc) == Result([rc.p EXCEPT !.lastError = rc.ret], rc.ret, rc.ev)

\* the transport calls of an earlier call of the same function come first
After(ev, r) == [r EXCEPT !.ev = ev \o @]

\* variant: the track number is checked only after the command was written
arduino_interface_select_track_late(p, trackIndex, a) ==
    LET p0 == [p EXCEPT !.lastCommand = "GOTO_TRACK"]
        sw == serial_write(p0, COMMAND_GOTOTRACK, a.w)
        code == IF trackIndex > MaxTrackIndex THEN "TRACK_RANGE_ERROR" ELSE "OK"
    IN Result([p0 EXCEPT !.lastError = code], code, sw.ev)

\* a: [w: bytes accepted of the 3-byte command, r: byte read, junk: the
\* uninitialised value of `result` that is switched on when the port is closed]
arduino_interface_select_track(p, trackIndex, a) ==
    LET p0 == [p EXCEPT !.lastCommand = "GOTO_TRACK"] IN
    IF trackIndex > MaxTrackIndex
    THEN Result([p0 EXCEPT !.lastError = "TRACK_RANGE_ERROR"], "TRACK_RANGE_ERROR", <<>>)
    ELSE
    LET sw == serial_write(p0, TrackText(trackIndex), a.w) IN
    IF sw.n = 0
    THEN Result([p0 EXCEPT !.lastError = "SEND_FAILED"], "SEND_FAILED", sw.ev)
    ELSE
    LET dr == device_read(p0, a.r, TRUE) IN
    IF ~dr.ok
    THEN Result([p0 EXCEPT !.lastError = "READ_RESPONSE_FAILED"],
                "READ_RESPONSE_FAILED", sw.ev \o dr.ev)
    ELSE
    LET result == IF dr.got THEN dr.b ELSE a.junk
        code   == CASE result = "2" -> "OK"
                    [] result = "1" -> "OK"
                    [] result = "0" -> "SELECT_TRACK_ERROR"
                    [] OTHER        -> "STATUS_ERROR"
    IN Result([p0 EXCEPT !.lastError = code], code, sw.ev \o dr.ev)

\* check_for_disk after its run_command returned rc; r2: the write-protect byte
\* variant: a write-protect byte of '#' marks the disk protected as '1' does
check_for_disk_reply_protected(rc, r2) ==
    LET p1 == [rc.p EXCEPT !.lastError = rc.ret] IN
    IF rc.ret \notin {"STATUS_ERROR", "OK"}
    THEN Result(p1, p1.lastError, rc.ev)
    ELSE
    IF rc.resp \notin {"#", "1"}
    THEN Result([p1 EXCEPT !.lastError = "READ_RESPONSE_FAILED"],
                "READ_RESPONSE_FAILED", rc.ev)
    ELSE
    LET p2 == IF rc.resp = "#"
              THEN [p1 EXCEPT !.lastError = "NO_DISK_IN_DRIVE", !.diskInDrive = FALSE]
              ELSE [p1 EXCEPT !.diskInDrive = TRUE]
        dr == device_read(p2, r2, TRUE)
    IN
    IF ~dr.ok
    THEN Result([p2 EXCEPT !.lastError = "READ_RESPONSE_FAILED"],
                "READ_RESPONSE_FAILED", rc.ev \o dr.ev)
    ELSE
    LET p3 == IF dr.b \in {"1", "#"}
              THEN [p2 EXCEPT !.isWriteProtected = TRUE]
              ELSE p2
    IN Result(p3, p3.lastError, rc.ev \o dr.ev)

check_for_disk_reply(rc, r2) ==
    LET p1 == [rc.p EXCEPT !.lastError = rc.ret] IN
    IF rc.ret \notin {"STATUS_ERROR", "OK"}
    THEN Result(p1, p1.lastError, rc.ev)
    ELSE
    IF rc.resp \notin {"#", "1"}
    THEN Result([p1 EXCEPT !.lastError = "READ_RESPONSE_FAILED"],
                "READ_RESPONSE_FAILED", rc.ev)
    ELSE
    LET p2 == IF rc.resp = "#"
              THEN [p1 EXCEPT !.lastError = "NO_DISK_IN_DRIVE", !.diskInDrive = FALSE]
              ELSE [p1 EXCEPT !.diskInDrive = TRUE]
        dr == device_read(p2, r2, TRUE)
    IN
    IF ~dr.ok
    THEN Result([p2 EXCEPT !.lastError = "READ_RESPONSE_FAILED"],
                "READ_RESPONSE_FAILED", rc.ev \o dr.ev)
    ELSE
    LET p3 == IF dr.b \in {"1", "#"}
              THEN [p2 EXCEPT !.isWriteProtected = (dr.b = "1")]
              ELSE p2
    IN Result(p3, p3.lastError, rc.ev \o dr.ev)

\* variant: the cached flag is not used, the device is asked every time
arduino_interface_check_for_disk_always(p, forceCheck, a) ==
    check_for_disk_reply(
        run_command([p EXCEPT !.lastCommand = "CHECK_DISK_IN_DRIVE"],
                    COMMAND_CHECKDISKEXISTS, NUL, a.c), a.r2)

\* a: [c: the answers to run_command, r2: the write-protect byte]
arduino_interface_check_for_disk(p, forceCheck, a) ==
    IF ~forceCheck
    THEN Result([p EXCEPT !.lastCommand = "CHECK_DISK_IN_DRIVE"],
                IF p.diskInDrive THEN "OK" ELSE "NO_DISK_IN_DRIVE", <<>>)
    ELSE check_for_disk_reply(
            run_command([p EXCEPT !.lastCommand = "CHECK_DISK_IN_DRIVE"],
                        COMMAND_CHECKDISKEXISTS, NUL, a.c), a.r2)

\* check_if_disk_is_write_protected after its forced check_for_disk returned cd
check_if_disk_is_write_protected_reply(cd) ==
    LET p1 == [cd.p EXCEPT !.lastError = cd.ret] IN
    IF p1.lastError \in {"STATUS_ERROR", "OK"} /\ p1.isWriteProtected
    THEN Result(p1, "WRITE_PROTECTED", cd.ev)
    ELSE Result(p1, p1.lastError, cd.ev)

arduino_interface_check_if_disk_is_write_protected(p, forceCheck, a) ==
    IF ~forceCheck
    THEN Result([p EXCEPT !.lastCommand = "CHECK_DISK_WRITE_PROTECTED"],
                IF p.isWriteProtected THEN "WRITE_PROTECTED" ELSE "OK", <<>>)
    ELSE check_if_disk_is_write_protected_reply(
            arduino_interface_check_for_disk(
                [p EXCEPT !.lastCommand = "CHECK_DISK_WRITE_PROTECTED"], TRUE, a))

\* find_track0 after its run_command returned rc
find_track0_reply(rc) ==
    LET \* status is initialised to '0' and overwritten only by a response read
        status == IF rc.resp = NoByte THEN "0" ELSE rc.resp
        p1 == [rc.p EXCEPT !.lastError = rc.ret]
    IN
    IF p1.lastError # "OK" /\ status = "#"
    THEN Result(p1, "REWIND_FAILURE", rc.ev)
    ELSE Result(p1, p1.lastError, rc.ev)

arduino_interface_find_track0(p, a) ==
    find_track0_reply(run_command([p EXCEPT !.lastCommand = "REWIND"],
                                  COMMAND_REWIND, NUL, a))

DISK_SURFACE_UPPER == 0
DISK_SURFACE_LOWER == 1

arduino_interface_select_surface(p, side, a) ==
    Returned(run_command([p EXCEPT !.lastCommand = "SELECT_SURFACE"],
                         IF side = DISK_SURFACE_UPPER THEN COMMAND_HEAD0
                         ELSE COMMAND_HEAD1, NUL, a))

\* enable_reading(enable, reset) after find_track0 returned ft; a3: the answers
\* to the select-surface command
enable_reading_rewound(ft, a3) ==
    LET p3 == [ft.p EXCEPT !.lastError = ft.ret] IN
    IF p3.lastError # "OK" THEN Result(p3, p3.lastError, ft.ev)
    ELSE After(ft.ev, arduino_interface_select_surface(p3, DISK_SURFACE_UPPER, a3))

\* enable_reading(enable) after the enable command returned rc
enable_reading_enabled(rc, reset, as) ==
    LET p2 == [rc.p EXCEPT !.lastError = rc.ret] IN
    IF p2.lastError # "OK" THEN Result(p2, p2.lastError, rc.ev)
    ELSE IF reset
    THEN After(rc.ev, enable_reading_rewound(arduino_interface_find_track0(p2, as[2]),
                                             as[3]))
    ELSE Result([p2 EXCEPT !.lastError = "OK",
                           !.inWriteMode = p2.version.fullControlMod], "OK", rc.ev)

\* as: the answers to the (up to three) commands, in order
arduino_interface_enable_reading(p, enable, reset, dontWait, as) ==
    IF enable
    THEN enable_reading_enabled(
            run_command([p EXCEPT !.inWriteMode = FALSE, !.lastCommand = "ENABLE_MOTOR"],
                        IF dontWait THEN COMMAND_ENABLE_NOWAIT ELSE COMMAND_ENABLE,
                        NUL, as[1]),
            reset, as)
    ELSE Returned(run_command([p EXCEPT !.inWriteMode = FALSE,
                                        !.lastCommand = "DISABLE_MOTOR"],
                              COMMAND_DISABLE, NUL, as[1]))

\* check_disk_capacity after its run_command returned rc; isHD is the caller's
\* flag, r2 the density byte
check_disk_capacity_reply(rc, isHD, r2) ==
    LET p1 == [rc.p EXCEPT !.lastError = rc.ret] IN
    IF p1.lastError # "OK"
    THEN [p |-> p1, ret |-> p1.lastError, ev |-> rc.ev, isHD |-> isHD]
    ELSE
    LET dr == device_read(p1, r2, TRUE) IN
    IF ~dr.ok
    THEN [p |-> [p1 EXCEPT !.lastError = "READ_RESPONSE_FAILED"],
          ret |-> "READ_RESPONSE_FAILED", ev |-> rc.ev \o dr.ev, isHD |-> isHD]
    ELSE
    LET p2 == CASE dr.b = "x" -> [p1 EXCEPT !.lastError = "NO_DISK_IN_DRIVE"]
                [] dr.b = "H" -> [p1 EXCEPT !.diskInDrive = TRUE, !.lastError = "OK"]
                [] dr.b = "D" -> [p1 EXCEPT !.diskInDrive = TRUE, !.lastError = "OK"]
                [] OTHER      -> p1
    IN [p |-> p2, ret |-> p2.lastError, ev |-> rc.ev \o dr.ev,
        \* case 'D' assigns the pointer (isHD = false), not the caller's flag
        isHD |-> IF dr.b = "H" THEN TRUE ELSE isHD]

\* variant: the reply 'D' is written through to the caller's flag
arduino_interface_check_disk_capacity_written(p, isHD, a) ==
    IF (p.version.deviceFlags1 \div FLAGS_DENSITYDETECT_ENABLED) % 2 = 0
    THEN [p |-> [p EXCEPT !.lastCommand = "CHECK_DENSITY"], ret |-> "OK",
          ev |-> <<>>, isHD |-> FALSE]
    ELSE check_disk_capacity_reply(
            run_command([p EXCEPT !.lastCommand = "CHECK_DENSITY"],
                        COMMAND_CHECK_DENSITY, NUL, a.c),
            IF a.r2 = "D" THEN FALSE ELSE isHD, a.r2)

\* a: [c: the answers to run_command, r2: the density byte]; the field isHD of
\* the result is the caller's flag as the call leaves it
arduino_interface_check_disk_capacity(p, isHD, a) ==
    IF (p.version.deviceFlags1 \div FLAGS_DENSITYDETECT_ENABLED) % 2 = 0
    THEN [p |-> [p EXCEPT !.lastCommand = "CHECK_DENSITY"], ret |-> "OK",
          ev |-> <<>>, isHD |-> FALSE]
    ELSE check_disk_capacity_reply(
            run_command([p EXCEPT !.lastCommand = "CHECK_DENSITY"],
                        COMMAND_CHECK_DENSITY, NUL, a.c), isHD, a.r2)

\* set_disk_capacity after its run_command returned rc
set_disk_capacity_reply(rc, switchToHD_Disk) ==
    IF rc.ret = "OK"
    THEN Result([rc.p EXCEPT !.lastError = "OK", !.isHDMode = switchToHD_Disk],
                "OK", rc.ev)
    ELSE Returned(rc)

arduino_interface_set_disk_capacity(p, switchToHD_Disk, a) ==
    set_disk_capacity_reply(
        run_command([p EXCEPT !.lastCommand = "SWITCH_DISK_MODE"],
                    IF switchToHD_Disk THEN COMMAND_SWITCHTO_HD
                    ELSE COMMAND_SWITCHTO_DD, NUL, a),
        switchToHD_Disk)

serial_close_port_forgetful(p) == [p EXCEPT !.isOpen = FALSE, !.version = NoVersion]

\* serial_close_port
serial_close_port(p) == [p EXCEPT !.isOpen = FALSE]

CloseEv == [k |-> "close", d |-> ""]

\* variant: the transport is released first
close_port_released(er) == Result(serial_close_port(er.p), "void", <<CloseEv>> \o er.ev)

\* close_port after the motor was disabled (er); close_port returns nothing
close_port_closed(er) == Result(serial_close_port(er.p), "void", er.ev \o <<CloseEv>>)

arduino_interface_close_port(p, a) ==
    IF ~p.isOpen THEN Result(p, "void", <<>>)
    ELSE close_port_closed(arduino_interface_enable_reading(p, FALSE, FALSE, FALSE, <<a>>))

----------------------------------------------------------------------------
(* Handshake: arduino_interface_open_port, internal_open_port and          *)
(* attempt_to_sync.  The sync loop is one iteration per step.              *)

NulBuffer == <<NUL, NUL, NUL, NUL, NUL>>

\* the locals of attempt_to_sync after its memset; ret = "" while the loop runs
SyncLocals == [buffer |-> NulBuffer, counterNoData |-> 0, counterData |-> 0,
               bytesRead |-> 0, ret |-> "", versionString |-> <<NUL, NUL, NUL, NUL>>]

\* buffer[0..4] holds '1' 'V' <1-9> <, or .> <0-9>  (TLA+ indices are 1..5)
SyncMatch(buffer) ==
    /\ buffer[1] = "1"
    /\ buffer[2] = "V"
    /\ buffer[3] \in {DigitChar[i + 1] : i \in 1..9}
    /\ buffer[4] \in {",", "."}
    /\ buffer[5] \in {DigitChar[i + 1] : i \in 0..9}

PurgeEv == [k |-> "purge", d |-> ""]

\* the polls of a loop are counted by the loop's own counters; the log keeps
\* the other transport calls
IsNotRead(e) == e.k # "r"
NotReads(ev) == SelectSeq(ev, IsNotRead)

\* variant: one more empty poll is allowed before giving up
SyncIter_patient(p, s, in) ==
    IF in.timeout
    THEN [s |-> [s EXCEPT !.ret = "ERROR_READING_VERSION"], ev |-> <<>>]
    ELSE
    LET sr     == serial_read(p, in.r)
        size   == sr.n
        buf1   == IF size > 0 THEN [s.buffer EXCEPT ![5] = sr.b] ELSE s.buffer
        bytes1 == s.bytesRead + size
    IN
    IF size > 0
    THEN
        IF SyncMatch(buf1)
        THEN [s |-> [s EXCEPT !.buffer = buf1, !.bytesRead = bytes1, !.ret = "OK",
                              !.versionString = <<buf1[2], buf1[3], buf1[4], buf1[5]>>],
              ev |-> sr.ev \o <<PurgeEv, PurgeEv>>]
        ELSE
        LET bytes2 == IF bytes1 # 0 THEN bytes1 - 1 ELSE bytes1
            buf2   == <<buf1[2], buf1[3], buf1[4], buf1[5], buf1[5]>>
        IN [s |-> [s EXCEPT !.buffer = buf2, !.bytesRead = bytes2,
                            !.counterData = s.counterData + 1,
                            !.ret = IF s.counterData > SyncDataLimit
                                    THEN "ERROR_MALFORMED_VERSION" ELSE ""],
            ev |-> sr.ev]
    ELSE
        IF s.counterNoData > SyncNoDataLimit + 1
        THEN [s |-> [s EXCEPT !.bytesRead = bytes1,
                              !.counterNoData = s.counterNoData + 1,
                              !.ret = "ERROR_READING_VERSION"],
              ev |-> sr.ev]
        ELSE
        IF (s.counterNoData + 1) % SyncKickPeriod = SyncKickPhase /\ bytes1 = 0
        THEN
            LET sw == serial_write(p, COMMAND_VERSION, in.kw) IN
            [s |-> [s EXCEPT !.buffer = [buf1 EXCEPT ![1] = COMMAND_VERSION],
                             !.bytesRead = bytes1,
                             !.counterNoData = s.counterNoData + 1,
                             !.ret = IF sw.n # 1 THEN "PORT_ERROR" ELSE ""],
             ev |-> sr.ev \o sw.ev]
        ELSE [s |-> [s EXCEPT !.bytesRead = bytes1,
                              !.counterNoData = s.counterNoData + 1],
              ev |-> sr.ev]

\* One iteration of the for(;;) loop of attempt_to_sync.
\* in: [timeout: the 8 seconds have passed, r: byte read or NoByte,
\*      kw: bytes accepted of a kick write]
SyncIter(p, s, in) ==
    IF in.timeout
    THEN [s |-> [s EXCEPT !.ret = "ERROR_READING_VERSION"], ev |-> <<>>]
    ELSE
    LET sr     == serial_read(p, in.r)
        size   == sr.n
        buf1   == IF size > 0 THEN [s.buffer EXCEPT ![5] = sr.b] ELSE s.buffer
        bytes1 == s.bytesRead + size
    IN
    IF size > 0
    THEN
        IF SyncMatch(buf1)
        THEN [s |-> [s EXCEPT !.buffer = buf1, !.bytesRead = bytes1, !.ret = "OK",
                              !.versionString = <<buf1[2], buf1[3], buf1[4], buf1[5]>>],
              ev |-> sr.ev \o <<PurgeEv, PurgeEv>>]
        ELSE
        LET bytes2 == IF bytes1 # 0 THEN bytes1 - 1 ELSE bytes1
            buf2   == <<buf1[2], buf1[3], buf1[4], buf1[5], buf1[5]>>
        IN [s |-> [s EXCEPT !.buffer = buf2, !.bytesRead = bytes2,
                            !.counterData = s.counterData + 1,
                            !.ret = IF s.counterData > SyncDataLimit
                                    THEN "ERROR_MALFORMED_VERSION" ELSE ""],
            ev |-> sr.ev]
    ELSE
        IF s.counterNoData > SyncNoDataLimit
        THEN [s |-> [s EXCEPT !.bytesRead = bytes1,
                              !.counterNoData = s.counterNoData + 1,
                              !.ret = "ERROR_READING_VERSION"],
              ev |-> sr.ev]
        ELSE
        IF (s.counterNoData + 1) % SyncKickPeriod = SyncKickPhase /\ bytes1 = 0
        THEN
            LET sw == serial_write(p, COMMAND_VERSION, in.kw) IN
            [s |-> [s EXCEPT !.buffer = [buf1 EXCEPT ![1] = COMMAND_VERSION],
                             !.bytesRead = bytes1,
                             !.counterNoData = s.counterNoData + 1,
                             !.ret = IF sw.n # 1 THEN "PORT_ERROR" ELSE ""],
             ev |-> sr.ev \o sw.ev]
        ELSE [s |-> [s EXCEPT !.bytesRead = bytes1,
                              !.counterNoData = s.counterNoData + 1],
              ev |-> sr.ev]

\* serial_open_port: res is what open()/tcgetattr() allow
serial_open_port(p, res) ==
    [p EXCEPT !.isOpen = (res = "OK")]

OpenEv(res) == [k |-> "open", d |-> res]

\* internal_open_port from serial_open_port to the query, after open_port closed
\* the port that was open (cl)
internal_open_port_begin(cl, in) ==
    LET p2 == serial_open_port([cl.p EXCEPT !.abortStreaming = TRUE], in.open)
        openEv == cl.ev \o <<OpenEv(in.open)>>
        code == CASE in.open = "IN_USE"    -> "PORT_IN_USE"
                  [] in.open = "NOT_FOUND" -> "PORT_NOT_FOUND"
                  [] in.open = "OK"        -> "OK"
                  [] OTHER                 -> "PORT_ERROR"
    IN
    IF code # "OK"
    THEN [p |-> [p2 EXCEPT !.lastError = code], phase |-> "done", ret |-> code,
          s |-> SyncLocals, ev |-> openEv]
    ELSE IF ~in.cfg
    THEN [p |-> [p2 EXCEPT !.lastError = "PORT_ERROR"], phase |-> "done",
          ret |-> "PORT_ERROR", s |-> SyncLocals, ev |-> openEv]
    ELSE
    LET sw == serial_write(p2, "xR?", in.w0) IN
    IF sw.n # 3
    THEN [p |-> serial_close_port(p2), phase |-> "post", ret |-> "",
          s |-> [SyncLocals EXCEPT !.ret = "PORT_ERROR"],
          ev |-> openEv \o sw.ev \o <<CloseEv>>]
    ELSE [p |-> p2, phase |-> "sync", ret |-> "", s |-> SyncLocals,
          ev |-> openEv \o sw.ev]

\* The part of open_port before the sync loop: close an open port, open and
\* configure the transport, send abort + reset + version query.
\* in: [close: answers to the disable command, open: serial_open_port's result,
\*      cfg: serial_configure_port succeeds, w0: bytes accepted of the 3-byte query]
\* phase "done": open_port has returned ret; "sync": the loop runs;
\* "post": attempt_to_sync has returned s.ret
open_port_begin(p, in) ==
    internal_open_port_begin(
        arduino_interface_close_port([p EXCEPT !.lastCommand = "OPEN_PORT"], in.close),
        in)

\* variant: the port reopened after the reset is handed back open
internal_open_port_failed_open(p, triggerReset, reopen) ==
    Result(serial_open_port(serial_close_port(p), reopen),
           IF reopen # "OK" THEN "PORT_ERROR" ELSE "ERROR_READING_VERSION",
           <<OpenEv(reopen)>>)

\* internal_open_port after attempt_to_sync failed
\* (reopen: the result of the serial_open_port that follows the reset)
internal_open_port_failed(p, triggerReset, reopen) ==
    IF triggerReset
    THEN
        LET p2 == serial_open_port(serial_close_port(p), reopen)
            ev == (IF p.isOpen THEN <<CloseEv>> ELSE <<>>) \o <<OpenEv(reopen)>>
        IN
        IF reopen # "OK" THEN Result(p2, "PORT_ERROR", ev)
        ELSE Result(serial_close_port(p2), "ERROR_READING_VERSION", ev \o <<CloseEv>>)
    ELSE Result(serial_close_port(p), "ERROR_READING_VERSION",
                IF p.isOpen THEN <<CloseEv>> ELSE <<>>)

\* the value of a capability byte: only bit 3 of deviceFlags1 is ever tested
FlagValue(b) == IF b = "0x08" THEN FLAGS_DENSITYDETECT_ENABLED ELSE 0

\* open_port after the check-features command returned rc; f1, f2, f3: the
\* three capability bytes or NoByte
open_port_features(rc, f1, f2, f3) ==
    LET p2 == [rc.p EXCEPT !.lastError = rc.ret] IN
    IF p2.lastError # "OK" THEN Result(p2, p2.lastError, rc.ev)
    ELSE
    LET d1 == device_read(p2, f1, FALSE)
        d2 == device_read(p2, f2, FALSE)
        d3 == device_read(p2, f3, FALSE)
    IN Result([p2 EXCEPT !.version.deviceFlags1 = FlagValue(d1.b),
                         !.version.deviceFlags2 = FlagValue(d2.b),
                         !.version.buildNumber  = FlagValue(d3.b)],
              p2.lastError, rc.ev \o d1.ev \o d2.ev \o d3.ev)

\* variant: the '.' separator, not the ',', marks the full-control firmware
ParseVersion_dot(vs) ==
    [major |-> DigitValue(vs[2]), minor |-> DigitValue(vs[4]),
     fullControlMod |-> (vs[3] = "."),
     deviceFlags1 |-> 0, deviceFlags2 |-> 0, buildNumber |-> 0]

\* the version fields open_port reads out of versionString ("V<d><sep><d>")
ParseVersion(vs) ==
    [major |-> DigitValue(vs[2]), minor |-> DigitValue(vs[4]),
     fullControlMod |-> (vs[3] = ","),
     deviceFlags1 |-> 0, deviceFlags2 |-> 0, buildNumber |-> 0]

\* The part of open_port after attempt_to_sync returned s.ret.
\* in: [reopen, feat: answers to the check-features command, f1, f2, f3]
open_port_end(p, s, in) ==
    IF s.ret # "OK"
    THEN Returned(internal_open_port_failed(p, TRUE, in.reopen))
    ELSE
    LET v0 == ParseVersion(s.versionString)
        p1 == [p EXCEPT !.lastError = "OK", !.version = v0]
    IN
    IF v0.major > 1 \/ (v0.major = 1 /\ v0.minor >= 9)
    THEN open_port_features(run_command(p1, COMMAND_CHECK_FEATURES, NUL, in.feat),
                            in.f1, in.f2, in.f3)
    ELSE Result(p1, p1.lastError, <<>>)

\* attempt_to_sync's loop run to its end against a device that sends `polls`
\* (one entry per read, NoByte for an empty one) and then stays silent; the
\* clock does not run out and kicks are accepted.  st: [s, ev]
sync_polled(st, it) == [s |-> it.s, ev |-> st.ev \o NotReads(it.ev)]

RECURSIVE attempt_to_sync_loop(_, _, _)
attempt_to_sync_loop(p, st, polls) ==
    IF st.s.ret # "" THEN st
    ELSE attempt_to_sync_loop(p,
            sync_polled(st, SyncIter(p, st.s,
                [timeout |-> FALSE,
                 r |-> IF polls = <<>> THEN NoByte ELSE Head(polls), kw |-> 1])),
            IF polls = <<>> THEN polls ELSE Tail(polls))

\* open_port from the return of attempt_to_sync (st) on
open_port_synced(b, st, in) == After(b.ev \o st.ev, open_port_end(b.p, st.s, in))

\* open_port after the query was sent (b)
open_port_sync(b, in) ==
    IF b.phase = "done" THEN Result(b.p, b.ret, b.ev)
    ELSE IF b.phase = "post" THEN open_port_synced(b, [s |-> b.s, ev |-> <<>>], in)
    ELSE open_port_synced(b, attempt_to_sync_loop(b.p, [s |-> b.s, ev |-> <<>>],
                                                  in.polls), in)

\* arduino_interface_open_port as one call
\* in: [close, open, cfg, w0, polls, reopen, feat, f1, f2, f3]
arduino_interface_open_port(p, in) == open_port_sync(open_port_begin(p, in), in)

----------------------------------------------------------------------------
(* Diagnostics: the two commands that carry a parameter byte *)

arduino_interface_test_index_pulse(p, a) ==
    Returned(run_command([p EXCEPT !.lastCommand = "RUN_DIAGNOSTICS"],
                         COMMAND_DIAGNOSTICS, "3", a))

arduino_interface_test_data_pulse(p, a) ==
    Returned(run_command([p EXCEPT !.lastCommand = "RUN_DIAGNOSTICS"],
                         COMMAND_DIAGNOSTICS, "4", a))

----------------------------------------------------------------------------
(* Track read: arduino_interface_read_current_track and                    *)
(* arduino_interface_abort_read_streaming.  The read loops are one poll    *)
(* per step.  The track bytes are not modelled: "d" is any data byte.      *)

\* w: bytes accepted of the abort byte
arduino_interface_abort_read_streaming(p, w) ==
    IF ~p.isStreaming THEN [p |-> p, ok |-> TRUE, ev |-> <<>>]
    ELSE IF ~p.abortStreaming
    THEN
        LET sw == serial_write(p, SPECIAL_ABORT_CHAR, w) IN
        IF sw.n = 0
        THEN [p |-> [p EXCEPT !.abortSignalled = TRUE], ok |-> FALSE, ev |-> sw.ev]
        ELSE [p |-> [p EXCEPT !.abortSignalled = TRUE, !.abortStreaming = TRUE],
              ok |-> TRUE, ev |-> sw.ev]
    ELSE [p |-> p, ok |-> TRUE, ev |-> <<>>]

\* the locals of read_current_track; ret = "" while a loop runs, starved is
\* set when the read-fail counter ended the streamed read
ReadLocals(dataLength) ==
    [readFail |-> 0, writePosition |-> 0, slidingWindow |-> NulBuffer,
     bytesRead |-> 0, bytePos |-> 0, dataLength |-> dataLength, ret |-> "",
     starved |-> FALSE]

\* the stream-start command was acknowledged: the flags before the loop
stream_armed(r) ==
    [p |-> [r.p EXCEPT !.isStreaming = TRUE, !.abortStreaming = FALSE,
                       !.abortSignalled = FALSE],
     phase |-> "stream", ret |-> "", ev |-> r.ev]

\* the stream-start command after its one retry
stream_retried(r) ==
    IF r.ret # "OK" THEN [p |-> r.p, phase |-> "done", ret |-> r.ret, ev |-> r.ev]
    ELSE stream_armed(r)

\* HD path after the first stream-start command returned rc
stream_started(rc, c2) ==
    IF rc.ret = "OK" THEN stream_armed(Returned(rc))
    ELSE stream_retried(After(rc.ev,
            Returned(run_command([rc.p EXCEPT !.lastError = rc.ret],
                                 COMMAND_READTRACKSTREAM, NUL, c2))))

\* non-HD path once the read-track command was acknowledged: the index-pulse
\* flag byte is written (wp: bytes accepted)
plain_armed(r, wp) ==
    IF wp = 0 /\ r.p.isOpen
    THEN [p |-> [r.p EXCEPT !.lastError = "SEND_PARAMETER_FAILED"], phase |-> "done",
          ret |-> "SEND_PARAMETER_FAILED", ev |-> r.ev \o <<WriteEv("0x01")>>]
    ELSE [p |-> r.p, phase |-> "plain", ret |-> "",
          ev |-> r.ev \o (IF r.p.isOpen THEN <<WriteEv("0x01")>> ELSE <<>>)]

\* the read-track command after its one retry
plain_retried(r, wp) ==
    IF r.ret # "OK" THEN [p |-> r.p, phase |-> "done", ret |-> r.ret, ev |-> r.ev]
    ELSE plain_armed(r, wp)

\* non-HD path after the first read-track command returned rc; a failed
\* command is followed by a read that clears the line and one retry
plain_started(rc, a) ==
    IF rc.ret = "OK" THEN plain_armed(Returned(rc), a.wp)
    ELSE plain_retried(After(rc.ev \o (IF rc.p.isOpen THEN <<ReadEv>> ELSE <<>>),
            Returned(run_command([rc.p EXCEPT !.lastError = rc.ret],
                                 COMMAND_READTRACK, NUL, a.c2))), a.wp)

\* read_current_track up to its read loop.
\* a: [c1, c2: answers to the command and its retry, wp: the flag-byte write]
\* phase "done": returned ret; "stream" / "plain": the HD / non-HD loop runs
read_current_track_begin(p, dataLength, a) ==
    IF \/ (dataLength = RAW_TRACKDATA_LENGTH_DD /\ p.isHDMode)
       \/ (dataLength = RAW_TRACKDATA_LENGTH_HD /\ ~p.isHDMode)
    THEN [p |-> [p EXCEPT !.lastCommand = "READ_TRACK",
                          !.lastError = "MEDIA_TYPE_MISMATCH"],
          phase |-> "done", ret |-> "MEDIA_TYPE_MISMATCH", ev |-> <<>>]
    ELSE IF p.isHDMode
    THEN stream_started(run_command([p EXCEPT !.lastCommand = "READ_TRACK_STREAM"],
                                    COMMAND_READTRACKSTREAM, NUL, a.c1), a.c2)
    ELSE plain_started(run_command([p EXCEPT !.lastCommand = "READ_TRACK"],
                                   COMMAND_READTRACK, NUL, a.c1), a)

AbortEcho == <<"X", "Y", "Z", SPECIAL_ABORT_CHAR, "1">>

\* x: [p, st, ev], the session, the locals and the transport calls of the poll
stream_abort_sent(x, ab) == [x EXCEPT !.p = ab.p, !.ev = @ \o ab.ev]

\* variant: the abort is sent one stored byte later
stream_byte_late_abort(x, b, w) ==
    IF x.p.abortSignalled
    THEN
        LET win == <<x.st.slidingWindow[2], x.st.slidingWindow[3],
                     x.st.slidingWindow[4], x.st.slidingWindow[5], b>>
        IN
        IF win = AbortEcho
        THEN [p |-> [x.p EXCEPT !.isStreaming = FALSE, !.lastError = "OK"],
              st |-> [x.st EXCEPT !.slidingWindow = win, !.bytesRead = 0],
              ev |-> x.ev \o <<PurgeEv>>]
        ELSE [x EXCEPT !.st.slidingWindow = win]
    ELSE
        IF x.st.writePosition + 1 > x.st.dataLength
        THEN stream_abort_sent([x EXCEPT !.st.writePosition = @ + 1],
                               arduino_interface_abort_read_streaming(x.p, w))
        ELSE [x EXCEPT !.st.writePosition = @ + 1]

\* one byte of a poll of the streamed read; w: bytes accepted of the abort byte
stream_byte(x, b, w) ==
    IF x.p.abortSignalled
    THEN
        LET win == <<x.st.slidingWindow[2], x.st.slidingWindow[3],
                     x.st.slidingWindow[4], x.st.slidingWindow[5], b>>
        IN
        IF win = AbortEcho
        THEN [p |-> [x.p EXCEPT !.isStreaming = FALSE, !.lastError = "OK"],
              st |-> [x.st EXCEPT !.slidingWindow = win, !.bytesRead = 0],
              ev |-> x.ev \o <<PurgeEv>>]
        ELSE [x EXCEPT !.st.slidingWindow = win]
    ELSE
        IF x.st.writePosition + 1 >= x.st.dataLength
        THEN stream_abort_sent([x EXCEPT !.st.writePosition = @ + 1],
                               arduino_interface_abort_read_streaming(x.p, w))
        ELSE [x EXCEPT !.st.writePosition = @ + 1]

\* the bytes of one poll, in order, until the echo ends the loop over them
RECURSIVE stream_bytes(_, _, _)
stream_bytes(x, chunk, w) ==
    IF chunk = <<>> \/ x.st.bytesRead = 0 THEN x
    ELSE stream_bytes(stream_byte(x, Head(chunk), w), Tail(chunk), w)

\* the read-fail limit was passed: after the forced disk check (cd)
stream_starved_checked(x, abev, cd) ==
    [p |-> cd.p, st |-> [x.st EXCEPT !.ret = cd.p.lastError, !.starved = TRUE],
     ev |-> x.ev \o abev \o cd.ev]

\* the read-fail limit was passed: after the forced abort (ab)
stream_starved_aborted(x, ab, in) ==
    stream_starved_checked(x, ab.ev,
        arduino_interface_check_for_disk(
            [ab.p EXCEPT !.lastError = "READ_RESPONSE_FAILED", !.isStreaming = FALSE],
            TRUE, in.check))

\* the read-fail limit was passed
\* in: [w, wf: bytes accepted of an abort byte, check: answers to the disk check]
stream_starved(x, in) ==
    stream_starved_aborted(x,
        arduino_interface_abort_read_streaming([x.p EXCEPT !.abortStreaming = FALSE],
                                               in.wf), in)

\* a poll of the streamed read after its bytes were handled
stream_polled(x, in) ==
    IF x.st.bytesRead < 1
    THEN
        IF x.st.readFail + 1 > StreamFailLimit
        THEN stream_starved([x EXCEPT !.st.readFail = @ + 1], in)
        ELSE IF ~x.p.isStreaming
        THEN [x EXCEPT !.st.readFail = @ + 1, !.st.ret = "OK", !.p.lastError = "OK"]
        ELSE [x EXCEPT !.st.readFail = @ + 1]
    ELSE x

\* one iteration of while (priv->isStreaming); chunk: the bytes the read returned
stream_poll(p, st, chunk, in) ==
    stream_polled(
        stream_bytes([p |-> p, st |-> [st EXCEPT !.bytesRead = Len(chunk)],
                      ev |-> <<>>], chunk, in.w), in)

\* one iteration of the for (;;) of the non-HD read; r: the byte read or NoByte
plain_poll(p, st, r) ==
    IF r # NoByte
    THEN
        IF r = NUL
        THEN [p |-> [p EXCEPT !.lastError = "OK"], st |-> [st EXCEPT !.ret = "OK"],
              ev |-> <<>>]
        ELSE [p |-> p,
              st |-> [st EXCEPT !.bytePos = IF @ < st.dataLength THEN @ + 1 ELSE @],
              ev |-> <<>>]
    ELSE
        IF st.readFail + 1 > ReadFailLimit
        THEN [p |-> [p EXCEPT !.lastError = "READ_RESPONSE_FAILED"],
              st |-> [st EXCEPT !.readFail = @ + 1, !.ret = "READ_RESPONSE_FAILED"],
              ev |-> <<>>]
        ELSE [p |-> p, st |-> [st EXCEPT !.readFail = @ + 1], ev |-> <<>>]

StreamResult(x) == Result(x.p, x.st.ret, x.ev)

\* read_current_track from its loop on, as one call: the loop either runs to
\* its normal end (the buffer filled, the abort was sent and echoed; or the
\* terminating zero byte arrived) or is ended by the read-fail counter.
\* a.loop: "complete" or "starved"
read_current_track_loop(b, dataLength, a) ==
    IF b.phase = "done" THEN Result(b.p, b.ret, b.ev)
    ELSE IF b.phase = "stream"
    THEN
        IF a.loop = "complete"
        THEN Result([b.p EXCEPT !.isStreaming = FALSE, !.abortStreaming = TRUE,
                                !.abortSignalled = TRUE, !.lastError = "OK"],
                    "OK", b.ev \o <<WriteEv(SPECIAL_ABORT_CHAR), PurgeEv>>)
        ELSE After(b.ev, StreamResult(
                stream_starved([p |-> b.p, st |-> ReadLocals(dataLength), ev |-> <<>>],
                               a)))
    ELSE
        IF a.loop = "complete"
        THEN Result([b.p EXCEPT !.lastError = "OK"], "OK", b.ev)
        ELSE Result([b.p EXCEPT !.lastError = "READ_RESPONSE_FAILED"],
                    "READ_RESPONSE_FAILED", b.ev)

\* a: [c1, c2, wp, loop, w, wf, check]
arduino_interface_read_current_track(p, dataLength, a) ==
    read_current_track_loop(read_current_track_begin(p, dataLength, a), dataLength, a)

----------------------------------------------------------------------------
(* Environment: what the transport and the device may answer               *)

MaxGap    == 6     \* empty polls the device may insert while it has bytes to send
MaxPrefix == 1     \* garbage bytes the device may send ahead of its version reply
MaxOpens  == 1     \* open_port calls in one run of the handshake specification

\* answers to run_command: the command byte is refused, or it is accepted and
\* the read returns r
Cmd(rs) == {[w1 |-> 0, w2 |-> 1, r |-> NoByte]}
           \cup {[w1 |-> 1, w2 |-> 1, r |-> x] : x \in rs}
\* the same for a command with a parameter byte, which may be refused as well
Par(rs) == Cmd(rs) \cup {[w1 |-> 1, w2 |-> 0, r |-> NoByte]}

Replies     == {"1", "0", "x", NoByte}
CmdAnswers  == Cmd(Replies)
ParAnswers  == Par(Replies)
Ack         == [w1 |-> 1, w2 |-> 1, r |-> "1"]
Nak         == [w1 |-> 1, w2 |-> 1, r |-> "0"]
Unasked     == [w1 |-> 1, w2 |-> 1, r |-> NoByte]   \* for a command that is not sent
OpenResults == {"OK", "NOT_FOUND", "IN_USE", "ACCESS_DENIED", "ERROR"}
FlagReplies == {<<"0x08", "0x00", "0x00">>, <<NoByte, NoByte, NoByte>>}
\* the two bytes of a disk check: presence, then write protection
CheckAnswers ==
    {[c |-> c, r2 |-> NoByte] : c \in Cmd({"0", NoByte})}
    \cup {[c |-> c, r2 |-> r2] : c \in Cmd({"1", "#"}) \ Cmd({}), r2 \in {"1", "#", NoByte}}
\* the density byte
DensityAnswers ==
    {[c |-> c, r2 |-> NoByte] : c \in Cmd({"0", NoByte})}
    \cup {[c |-> Ack, r2 |-> r2] : r2 \in {"H", "D", "x", NoByte}}
SeekAnswers == {[w |-> w, r |-> r, junk |-> "0"] : w \in {0, 3},
                                                   r \in {"1", "2", "0", "x", NoByte}}

VersionReplies == {<<"1", "V", "9", ",", "5">>, <<"1", "V", "1", ".", "5">>,
                   <<"1", "V", "1", ".", "9">>}
Garbage(n) == [i \in 1..n |-> "z"]
\* what the device sends after the query: nothing, garbage without end, or a
\* version reply behind some garbage, with up to `gaps` empty polls in between
Personas ==
    {[script |-> <<>>, flood |-> f, gaps |-> 0] : f \in BOOLEAN}
    \cup {[script |-> Garbage(n) \o v, flood |-> FALSE, gaps |-> MaxGap] :
            n \in 0..MaxPrefix, v \in VersionReplies}

\* what is remembered of an open_port call for the properties: the first bytes
\* the device delivered, whether the clock ran out, whether a write was
\* refused, the transport's answers, and what attempt_to_sync returned
NoGhost == [rx |-> <<>>, timedOut |-> FALSE, wrefused |-> FALSE, wasOpen |-> FALSE,
            opened |-> "", cfg |-> TRUE, reopen |-> "", feat |-> Unasked,
            empties |-> 0, received |-> 0, kicks |-> 0, syncRet |-> "", opens |-> 0]

Idle      == [pc |-> "idle", s |-> SyncLocals, g |-> NoGhost]
NoStream  == [pc |-> "idle"]
NoLast    == [op |-> "none", ret |-> "", in |-> <<>>]
Quiet     == [script |-> <<>>, flood |-> FALSE, gaps |-> 0]
NoDevice  == [loaded |-> FALSE]
NoFdc     == [pc |-> "idle"]


----------------------------------------------------------------------------
(* Spec: the engine's operations called one after another, each answered   *)
(* by the transport in every way it can                                    *)

V19 == <<"1", "V", "1", ".", "9">>

\* an open_port call that succeeds against firmware 1.9
OpenOk == [close |-> Unasked, open |-> "OK", cfg |-> TRUE, w0 |-> 3, polls |-> V19,
           reopen |-> "OK", feat |-> Ack, f1 |-> "0x08", f2 |-> "0x00", f3 |-> "0x00"]

\* the ways an open_port call is answered here (SpecSync has the others)
OpenInputs ==
    {[OpenOk EXCEPT !.open = o] : o \in {"NOT_FOUND", "ACCESS_DENIED"}}
    \cup {[OpenOk EXCEPT !.cfg = FALSE], [OpenOk EXCEPT !.w0 = 0],
          [OpenOk EXCEPT !.polls = <<>>], [OpenOk EXCEPT !.feat = Nak]}
    \cup {[OpenOk EXCEPT !.f1 = f[1], !.f2 = f[2], !.f3 = f[3]] : f \in FlagReplies}

TrackChoices == {83, 84, 255}

ReadOk == [c1 |-> Ack, c2 |-> Unasked, wp |-> 1, loop |-> "complete", w |-> 1, wf |-> 1,
           check |-> [c |-> Unasked, r2 |-> NoByte]]

\* ghost: the flags as the most recent forced disk check that received the
\* byte wrote them (as constructed, before any such check)
NoForced == [forcedDisk |-> FALSE, forcedProtected |-> FALSE]

Init ==
    /\ priv = arduino_interface_create
    /\ io = <<>>
    /\ last = NoLast
    /\ sync = Idle
    /\ stream = NoStream
    /\ hw = NoForced
    /\ dev = NoDevice
    /\ fdc = NoFdc

\* what a closed port is not asked
IfOpen(S, none) == IF priv.isOpen THEN S ELSE {none}

\* the forced disk check of this call received the presence byte
PresenceRead(op, arg, a) ==
    /\ op \in {"check_for_disk", "check_if_disk_is_write_protected"}
    /\ arg = TRUE
    /\ priv.isOpen
    /\ a.c.w1 = 1
    /\ a.c.r \in {"#", "1"}

Forced(op, arg, a, r) ==
    IF ~PresenceRead(op, arg, a) THEN hw
    ELSE [forcedDisk |-> r.p.diskInDrive,
          forcedProtected |-> IF a.r2 \in {"#", "1"} THEN r.p.isWriteProtected
                              ELSE hw.forcedProtected]

\* the call returned r
Returns(op, arg, a, r) ==
    /\ priv' = r.p
    /\ io' = r.ev
    /\ last' = [op |-> op, ret |-> r.ret,
                in |-> [wasOpen |-> priv.isOpen, arg |-> arg, a |-> a]]
    /\ hw' = Forced(op, arg, a, r)
    /\ UNCHANGED <<sync, stream, dev, fdc>>

OpenPort ==
    \E in \in OpenInputs, close \in IfOpen({Ack, Unasked}, Unasked) :
        Returns("open_port", "", <<>>,
                arduino_interface_open_port(priv, [in EXCEPT !.close = close]))

ClosePort ==
    \E a \in IfOpen(CmdAnswers, Unasked) :
        Returns("close_port", "", <<>>, arduino_interface_close_port(priv, a))

SelectTrack ==
    \E trackIndex \in TrackChoices :
        \E a \in IF trackIndex > MaxTrackIndex THEN {[w |-> 3, r |-> "1", junk |-> "0"]}
                 ELSE IF priv.isOpen THEN SeekAnswers
                 ELSE {[w |-> 3, r |-> NoByte, junk |-> j] : j \in {"1", "0", "x"}} :
        Returns("select_track", trackIndex, <<>>,
                arduino_interface_select_track(priv, trackIndex, a))

CheckForDisk ==
    \E forceCheck \in BOOLEAN :
        \E a \in IF forceCheck THEN IfOpen(CheckAnswers, [c |-> Unasked, r2 |-> NoByte])
                 ELSE {[c |-> Unasked, r2 |-> NoByte]} :
        Returns("check_for_disk", forceCheck, a,
                arduino_interface_check_for_disk(priv, forceCheck, a))

CheckIfDiskIsWriteProtected ==
    \E forceCheck \in BOOLEAN :
        \E a \in IF forceCheck THEN IfOpen(CheckAnswers, [c |-> Unasked, r2 |-> NoByte])
                 ELSE {[c |-> Unasked, r2 |-> NoByte]} :
        Returns("check_if_disk_is_write_protected", forceCheck, a,
                arduino_interface_check_if_disk_is_write_protected(priv, forceCheck, a))

FindTrack0 ==
    \E a \in IfOpen(Cmd({"1", "0", "#", NoByte}), Unasked) :
        Returns("find_track0", "", <<>>, arduino_interface_find_track0(priv, a))

SelectSurface ==
    \E side \in {DISK_SURFACE_UPPER, DISK_SURFACE_LOWER},
       a \in IfOpen(CmdAnswers, Unasked) :
        Returns("select_surface", side, a,
                arduino_interface_select_surface(priv, side, a))

EnableReading ==
    \E enable \in BOOLEAN, reset \in BOOLEAN, dontWait \in BOOLEAN,
       a1 \in IfOpen({Ack, Nak, Unasked}, Unasked) :
        /\ (reset \/ dontWait) => enable
        /\ ~(reset /\ dontWait)
        /\ \E a2 \in IF enable /\ reset /\ a1 = Ack THEN Cmd({"1", "#", NoByte})
                  ELSE {Unasked} :
           \E a3 \in IF a2 = Ack THEN {Ack, Nak} ELSE {Unasked} :
            Returns("enable_reading", enable, <<>>,
                    arduino_interface_enable_reading(priv, enable, reset, dontWait,
                                                     <<a1, a2, a3>>))

\* isHD: the caller's flag before the call; last.isHD: the flag after it
CheckDiskCapacity ==
    \E isHD \in BOOLEAN,
       a \in IfOpen(DensityAnswers, [c |-> Unasked, r2 |-> NoByte]) :
        \E r \in {arduino_interface_check_disk_capacity(priv, isHD, a)} :
            /\ priv' = r.p
            /\ io' = r.ev
            /\ last' = [op |-> "check_disk_capacity", ret |-> r.ret,
                        in |-> [wasOpen |-> priv.isOpen, arg |-> isHD, a |-> a],
                        isHD |-> r.isHD]
            /\ UNCHANGED <<hw, sync, stream, dev, fdc>>

SetDiskCapacity ==
    \E switchToHD_Disk \in BOOLEAN, a \in IfOpen(CmdAnswers, Unasked) :
        Returns("set_disk_capacity", switchToHD_Disk, a,
                arduino_interface_set_disk_capacity(priv, switchToHD_Disk, a))

TestIndexPulse ==
    \E a \in IfOpen(ParAnswers, Unasked) :
        Returns("test_index_pulse", "3", a, arduino_interface_test_index_pulse(priv, a))

TestDataPulse ==
    \E a \in IfOpen(ParAnswers, Unasked) :
        Returns("test_data_pulse", "4", a, arduino_interface_test_data_pulse(priv, a))

Next ==
    \/ OpenPort
    \/ ClosePort
    \/ SelectTrack
    \/ CheckForDisk
    \/ CheckIfDiskIsWriteProtected
    \/ FindTrack0
    \/ SelectSurface
    \/ EnableReading
    \/ CheckDiskCapacity
    \/ SetDiskCapacity
    \/ TestIndexPulse
    \/ TestDataPulse

Spec == Init /\ [][Next]_vars

----------------------------------------------------------------------------
(* Properties of the engine's operations (Spec) *)

\* C1: select_track with a track above 83 returns TRACK_RANGE_ERROR and makes
\* no transport call at all, whether the port is open or not.
C1_TrackRange ==
    (last.op = "select_track" /\ last.in.arg > MaxTrackIndex)
    => (last.ret = "TRACK_RANGE_ERROR" /\ io = <<>>)

\* C1 witness: track above 83 asked of an open port
C1_Witness ==
    /\ last.op = "select_track"
    /\ last.in.arg > MaxTrackIndex
    /\ last.in.wasOpen
    /\ priv.isOpen
    /\ last.ret = "TRACK_RANGE_ERROR"
    /\ io = <<>>

\* the operations that are one run_command exchange, and what they send
ExchangeOps == {"select_surface", "set_disk_capacity", "test_index_pulse",
                "test_data_pulse"}
SentCommand ==
    CASE last.op = "select_surface" ->
            IF last.in.arg = DISK_SURFACE_UPPER THEN COMMAND_HEAD0 ELSE COMMAND_HEAD1
      [] last.op = "set_disk_capacity" ->
            IF last.in.arg THEN COMMAND_SWITCHTO_HD ELSE COMMAND_SWITCHTO_DD
      [] OTHER -> COMMAND_DIAGNOSTICS
SentParameter ==
    IF last.op \in {"test_index_pulse", "test_data_pulse"} THEN last.in.arg ELSE NUL
ParameterEv == IF SentParameter # NUL THEN <<WriteEv(SentParameter)>> ELSE <<>>

\* C5: run_command writes the command byte, then the parameter byte only if it
\* is not NUL, then reads one byte, in that order; the first step that fails
\* decides the code (SEND_FAILED, SEND_PARAMETER_FAILED, READ_RESPONSE_FAILED)
\* and nothing follows it; otherwise '1' gives OK, '0' ERROR, anything else
\* STATUS_ERROR.
C5_RunCommand ==
    last.op \in ExchangeOps =>
        IF ~last.in.wasOpen
        THEN io = <<>> /\ last.ret = "SEND_FAILED"
        ELSE IF last.in.a.w1 # 1
        THEN io = <<WriteEv(SentCommand)>> /\ last.ret = "SEND_FAILED"
        ELSE IF SentParameter # NUL /\ last.in.a.w2 # 1
        THEN /\ io = <<WriteEv(SentCommand), WriteEv(SentParameter)>>
             /\ last.ret = "SEND_PARAMETER_FAILED"
        ELSE /\ io = <<WriteEv(SentCommand)>> \o ParameterEv \o <<ReadEv>>
             /\ last.ret = CASE last.in.a.r = NoByte -> "READ_RESPONSE_FAILED"
                             [] last.in.a.r = "1"    -> "OK"
                             [] last.in.a.r = "0"    -> "ERROR"
                             [] OTHER                -> "STATUS_ERROR"

\* C5 witness: an exchange with a parameter byte, answered by neither '1' nor '0'
C5_Witness ==
    /\ last.op = "test_index_pulse"
    /\ last.in.wasOpen
    /\ io = <<WriteEv(COMMAND_DIAGNOSTICS), WriteEv("3"), ReadEv>>
    /\ last.ret = "STATUS_ERROR"

\* the last-command tag that names an operation
LastCommandOf ==
    CASE last.op = "open_port" -> "OPEN_PORT"
      [] last.op = "select_track" -> "GOTO_TRACK"
      [] last.op = "check_for_disk" -> "CHECK_DISK_IN_DRIVE"
      [] last.op = "check_if_disk_is_write_protected" -> "CHECK_DISK_WRITE_PROTECTED"
      [] last.op = "find_track0" -> "REWIND"
      [] last.op = "select_surface" -> "SELECT_SURFACE"
      [] last.op = "enable_reading" ->
            IF last.in.arg THEN "ENABLE_MOTOR" ELSE "DISABLE_MOTOR"
      [] last.op = "check_disk_capacity" -> "CHECK_DENSITY"
      [] last.op = "set_disk_capacity" -> "SWITCH_DISK_MODE"
      [] OTHER -> "RUN_DIAGNOSTICS"

\* C8 as stated: after an operation returned a diagnostic code, lastError is
\* that code and lastCommand names the operation.
C8_AsStated ==
    last.op \notin {"none", "close_port"} =>
        (priv.lastError = last.ret /\ priv.lastCommand = LastCommandOf)

\* the cached disk check returned a code that lastError does not hold
C8_CachedCheck ==
    /\ last.op = "check_for_disk"
    /\ last.in.arg = FALSE
    /\ priv.lastCommand = "CHECK_DISK_IN_DRIVE"
    /\ priv.lastError # last.ret

\* C9: close_port on an open port writes the disable-motor command first and
\* releases the transport last, and the port is closed afterwards; on a closed
\* port it makes no transport call.
C9_ClosePort ==
    last.op = "close_port" =>
        /\ ~priv.isOpen
        /\ IF last.in.wasOpen
           THEN /\ Len(io) >= 2
                /\ io[1] = WriteEv(COMMAND_DISABLE)
                /\ io[Len(io)] = CloseEv
                /\ \A i \in 1..(Len(io) - 1) : io[i] # CloseEv
           ELSE io = <<>>

\* C9 witness: an open port was closed, the command going out first
C9_Witness ==
    /\ last.op = "close_port"
    /\ last.in.wasOpen
    /\ ~priv.isOpen
    /\ io[1] = WriteEv(COMMAND_DISABLE)
    /\ io[Len(io)] = CloseEv

\* a forced check_for_disk on an open port whose command was accepted and
\* whose two bytes were both delivered
BothBytesRead ==
    /\ last.op = "check_for_disk"
    /\ last.in.arg = TRUE
    /\ last.in.wasOpen
    /\ last.in.a.c.w1 = 1
    /\ last.in.a.c.r \in {"#", "1"}
    /\ last.in.a.r2 # NoByte

\* C11 (amended): a forced check_for_disk writes the command and reads two
\* bytes; a presence byte '#' gives NO_DISK_IN_DRIVE with diskInDrive false,
\* '1' gives OK with diskInDrive true; a write-protect byte '1' sets
\* isWriteProtected and '#' clears it.
C11_TwoBytes ==
    BothBytesRead =>
        /\ io = <<WriteEv(COMMAND_CHECKDISKEXISTS), ReadEv, ReadEv>>
        /\ last.in.a.c.r = "#" => (last.ret = "NO_DISK_IN_DRIVE" /\ ~priv.diskInDrive)
        /\ last.in.a.c.r = "1" => (last.ret = "OK" /\ priv.diskInDrive)
        /\ last.in.a.r2 = "1" => priv.isWriteProtected
        /\ last.in.a.r2 = "#" => ~priv.isWriteProtected

\* C11 witness: a disk is reported present and not write-protected
C11_Witness ==
    /\ BothBytesRead
    /\ last.in.a.c.r = "1"
    /\ last.in.a.r2 = "#"
    /\ priv.diskInDrive
    /\ ~priv.isWriteProtected

\* C11 as stated: a write-protect byte of '1' or of '#' marks the disk as
\* write-protected.
C11_AsStated ==
    BothBytesRead =>
        /\ last.in.a.c.r = "#" => (last.ret = "NO_DISK_IN_DRIVE" /\ ~priv.diskInDrive)
        /\ last.in.a.c.r = "1" => priv.diskInDrive
        /\ last.in.a.r2 \in {"1", "#"} => priv.isWriteProtected

\* a step that is a cached disk check: the call made with forceCheck false
CachedCheckStep(op) ==
    /\ last'.op = op
    /\ last'.in.arg = FALSE
    /\ <<priv, io, last>> # <<priv', io', last'>>

\* C12 (amended): the cached checks make no transport call, leave diskInDrive
\* and isWriteProtected as they are, and return what these flags say:
\* check_for_disk OK or NO_DISK_IN_DRIVE by diskInDrive,
\* check_if_disk_is_write_protected WRITE_PROTECTED or OK by isWriteProtected.
C12_CachedChecks ==
    [][/\ CachedCheckStep("check_for_disk") =>
            /\ io' = <<>>
            /\ priv'.diskInDrive = priv.diskInDrive
            /\ priv'.isWriteProtected = priv.isWriteProtected
            /\ last'.ret = IF priv.diskInDrive THEN "OK" ELSE "NO_DISK_IN_DRIVE"
       /\ CachedCheckStep("check_if_disk_is_write_protected") =>
            /\ io' = <<>>
            /\ priv'.diskInDrive = priv.diskInDrive
            /\ priv'.isWriteProtected = priv.isWriteProtected
            /\ last'.ret = IF priv.isWriteProtected THEN "WRITE_PROTECTED" ELSE "OK"
      ]_vars

\* C12 witness: a cached check_for_disk on an open port reported the disk a
\* forced check had found, without a transport call
C12_Witness ==
    /\ last.op = "check_for_disk"
    /\ last.in.arg = FALSE
    /\ last.in.wasOpen
    /\ hw.forcedDisk
    /\ priv.diskInDrive
    /\ last.ret = "OK"
    /\ io = <<>>

\* C12 as stated: the cached checks return the value cached by the most
\* recent forced check.
C12_AsStated ==
    /\ (last.op = "check_for_disk" /\ last.in.arg = FALSE) =>
            last.ret = IF hw.forcedDisk THEN "OK" ELSE "NO_DISK_IN_DRIVE"
    /\ (last.op = "check_if_disk_is_write_protected" /\ last.in.arg = FALSE) =>
            last.ret = IF hw.forcedProtected THEN "WRITE_PROTECTED" ELSE "OK"

\* check_disk_capacity set diskInDrive after a forced check had cleared it
C12_CapacityCached ==
    /\ last.op = "check_for_disk"
    /\ last.in.arg = FALSE
    /\ ~hw.forcedDisk
    /\ last.ret = "OK"

----------------------------------------------------------------------------
(* SpecSync: open_port step by step against the device personas *)

SyncInit ==
    /\ priv = arduino_interface_create
    /\ io = <<>>
    /\ last = NoLast
    /\ sync = Idle
    /\ stream = NoStream
    /\ hw = Quiet
    /\ dev = NoDevice
    /\ fdc = NoFdc

SyncOpenStart ==
    /\ sync.pc = "idle"
    /\ sync.g.opens < MaxOpens
    /\ \E close \in (IF priv.isOpen THEN CmdAnswers ELSE {Unasked}),
          open \in OpenResults, cfg \in BOOLEAN, w0 \in {0, 3},
          persona \in Personas :
        \E b \in {open_port_begin(priv, [close |-> close, open |-> open,
                                         cfg |-> cfg, w0 |-> w0])} :
        \E g \in {[NoGhost EXCEPT !.wasOpen = priv.isOpen, !.opened = open,
                                  !.cfg = cfg, !.wrefused = (w0 # 3),
                                  !.syncRet = b.s.ret,
                                  !.opens = sync.g.opens + 1]} :
        /\ priv' = b.p
        /\ io' = b.ev
        /\ hw' = persona
        /\ IF b.phase = "done"
           THEN /\ sync' = [pc |-> "idle", s |-> SyncLocals, g |-> g]
                /\ last' = [op |-> "open_port", ret |-> b.ret, in |-> <<>>]
           ELSE /\ sync' = [pc |-> b.phase, s |-> b.s, g |-> g]
                /\ last' = NoLast
    /\ UNCHANGED <<stream, dev, fdc>>

\* what one poll can return: the next byte of the device, or nothing
PollResults ==
    IF hw.script # <<>> THEN {Head(hw.script)} \cup (IF hw.gaps > 0 THEN {NoByte} ELSE {})
    ELSE IF hw.flood THEN {"z"} ELSE {NoByte}

IsWrite(e) == e.k = "w"

SyncPoll ==
    /\ sync.pc = "sync"
    /\ \E timeout \in BOOLEAN, r \in PollResults, kw \in {0, 1} :
        \E it \in {SyncIter(priv, sync.s, [timeout |-> timeout, r |-> r, kw |-> kw])} :
        \E kicked \in {SelectSeq(it.ev, IsWrite) # <<>>}, got \in {~timeout /\ r # NoByte} :
        /\ (kicked \/ kw = 1)
        /\ sync' = [pc |-> IF it.s.ret = "" THEN "sync" ELSE "post", s |-> it.s,
                    g |-> [sync.g EXCEPT
                            !.rx = IF got /\ Len(@) < 5 THEN Append(@, r) ELSE @,
                            !.timedOut = timeout,
                            !.wrefused = @ \/ (kicked /\ kw # 1),
                            !.kicks = IF kicked THEN @ + 1 ELSE @,
                            !.empties = IF ~timeout /\ ~got THEN @ + 1 ELSE @,
                            !.received = IF got THEN @ + 1 ELSE @,
                            !.syncRet = it.s.ret]]
        /\ io' = io \o NotReads(it.ev)
        /\ hw' = IF timeout THEN hw
                 ELSE IF got THEN [hw EXCEPT !.script = IF @ # <<>> THEN Tail(@) ELSE @]
                 ELSE [hw EXCEPT !.gaps = IF @ > 0 THEN @ - 1 ELSE @]
    /\ UNCHANGED <<priv, last, stream, dev, fdc>>

\* attempt_to_sync failed: the reset sequence
SyncOpenFailed ==
    /\ sync.pc = "post"
    /\ sync.s.ret # "OK"
    /\ \E reopen \in OpenResults :
        \E e \in {open_port_end(priv, sync.s,
                    [reopen |-> reopen, feat |-> Unasked,
                     f1 |-> NoByte, f2 |-> NoByte, f3 |-> NoByte])} :
        /\ priv' = e.p
        /\ io' = io \o e.ev
        /\ last' = [op |-> "open_port", ret |-> e.ret, in |-> <<>>]
        /\ sync' = [pc |-> "idle", s |-> SyncLocals,
                    g |-> [sync.g EXCEPT !.reopen = reopen]]
    /\ UNCHANGED <<hw, stream, dev, fdc>>

\* attempt_to_sync succeeded: version parsing and the feature check
SyncOpenSynced ==
    /\ sync.pc = "post"
    /\ sync.s.ret = "OK"
    /\ \E feat \in CmdAnswers, f \in FlagReplies :
        \E e \in {open_port_end(priv, sync.s,
                    [reopen |-> "OK", feat |-> feat,
                     f1 |-> f[1], f2 |-> f[2], f3 |-> f[3]])} :
        /\ priv' = e.p
        /\ io' = io \o e.ev
        /\ last' = [op |-> "open_port", ret |-> e.ret, in |-> <<>>]
        /\ sync' = [pc |-> "idle", s |-> SyncLocals,
                    g |-> [sync.g EXCEPT !.feat = feat]]
    /\ UNCHANGED <<hw, stream, dev, fdc>>

SyncNext == SyncOpenStart \/ SyncPoll \/ SyncOpenFailed \/ SyncOpenSynced

SpecSync == SyncInit /\ [][SyncNext]_vars

----------------------------------------------------------------------------
(* Properties of the handshake (SpecSync) *)

\* an open_port call has returned and no other is in progress
OpenReturned == sync.pc = "idle" /\ last.op = "open_port"

\* the transport opened and was configured, and accepted every write
TransportWorks == sync.g.opened = "OK" /\ sync.g.cfg /\ ~sync.g.wrefused

Reply95 == <<"1", "V", "9", ",", "5">>

\* the device answered the first query with "1V9,5" before any kick was sent,
\* and acknowledged the check-features command with '1'
Answered95 ==
    /\ OpenReturned
    /\ TransportWorks
    /\ sync.g.rx = Reply95
    /\ sync.g.kicks = 0
    /\ sync.g.feat.w1 = 1
    /\ sync.g.feat.r = "1"

\* C2 (as amended): when the device delivers "1V9,5" in reply to the initial
\* query, before any kick and before the timeout, and acknowledges the
\* check-features command, open_port returns OK with the port open and records
\* major 9, minor 5 and fullControlMod TRUE (the ',' separator sets it).
C2_OpenPortReady ==
    Answered95 =>
        /\ last.ret = "OK"
        /\ priv.isOpen
        /\ priv.version.major = 9
        /\ priv.version.minor = 5
        /\ priv.version.fullControlMod = TRUE

\* C2 witness: such an open_port call has returned
C2_Witness ==
    /\ Answered95
    /\ last.ret = "OK"
    /\ priv.isOpen
    /\ priv.version.fullControlMod

\* C2 as stated: the same reply records fullControlMod FALSE
C2_AsStated ==
    Answered95 =>
        /\ last.ret = "OK"
        /\ priv.isOpen
        /\ priv.version.major = 9
        /\ priv.version.minor = 5
        /\ priv.version.fullControlMod = FALSE

\* the transport worked, the port could be reopened after the reset, and the
\* device never delivered a byte
NeverAnswered ==
    /\ OpenReturned
    /\ TransportWorks
    /\ sync.g.reopen = "OK"
    /\ sync.g.received = 0

\* C3: when the transport accepts every write (and every open) but never
\* returns a byte, open_port returns ERROR_READING_VERSION and the port is
\* closed, whether the 8 seconds or the empty-poll limit ends the wait.
C3_SilentDevice ==
    NeverAnswered => (last.ret = "ERROR_READING_VERSION" /\ ~priv.isOpen)

\* C3 witness: the empty-poll limit ended the wait of such a call
C3_Witness ==
    /\ NeverAnswered
    /\ sync.g.empties > SyncNoDataLimit
    /\ sync.g.kicks > 0
    /\ last.ret = "ERROR_READING_VERSION"
    /\ ~priv.isOpen

\* C4 as stated: when more than 2048 bytes arrived and none completed the
\* version pattern, open_port returns ERROR_MALFORMED_VERSION.
C4_AsStated ==
    (OpenReturned /\ TransportWorks /\ sync.g.received > SyncDataLimit
        /\ sync.g.syncRet # "OK")
    => last.ret = "ERROR_MALFORMED_VERSION"

\* attempt_to_sync did return ERROR_MALFORMED_VERSION, and open_port another code
C4_Swallowed ==
    /\ OpenReturned
    /\ sync.g.syncRet = "ERROR_MALFORMED_VERSION"
    /\ last.ret = "ERROR_READING_VERSION"

----------------------------------------------------------------------------
(* SpecStream: arduino_interface_read_current_track on an open session, one *)
(* poll of its read loop per step                                           *)

MaxDataLength == 2     \* longest track buffer a read is asked to fill
MaxReads      == 1     \* read_current_track calls in one run

\* the session before the first read: opened against firmware 1.9, then
\* switched to the disk capacity hd
StreamSession(hd) ==
    arduino_interface_set_disk_capacity(
        arduino_interface_open_port(arduino_interface_create, OpenOk).p, hd, Ack).p

\* ghost of a read: consec is the length of the current run of empty polls,
\* echoed the bytes of the abort echo the device has sent
StreamIdle == [pc |-> "idle", st |-> ReadLocals(0), consec |-> 0, echoed |-> 0,
               reads |-> 0]

StreamInit ==
    /\ \E hd \in BOOLEAN : priv = StreamSession(hd)
    /\ io = <<>>
    /\ last = NoLast
    /\ sync = Idle
    /\ stream = StreamIdle
    /\ hw = Quiet
    /\ dev = NoDevice
    /\ fdc = NoFdc

\* answers to the read command, its retry and the index-pulse flag byte
StartAnswers ==
    {[c1 |-> Ack, c2 |-> Unasked, wp |-> 1], [c1 |-> Ack, c2 |-> Unasked, wp |-> 0],
     [c1 |-> Nak, c2 |-> Ack, wp |-> 1], [c1 |-> Nak, c2 |-> Nak, wp |-> 1]}

\* the buffer lengths asked for: short ones, and the standard length of the
\* other capacity
DataLengths ==
    (1..MaxDataLength)
    \cup {IF priv.isHDMode THEN RAW_TRACKDATA_LENGTH_DD ELSE RAW_TRACKDATA_LENGTH_HD}

\* read_current_track is called and runs up to its read loop
StreamStart ==
    /\ stream.pc = "idle"
    /\ stream.reads < MaxReads
    /\ \E dataLength \in DataLengths, a \in StartAnswers :
        \E b \in {read_current_track_begin(priv, dataLength, a)} :
            /\ priv' = b.p
            /\ io' = b.ev
            /\ stream' = [pc |-> b.phase, st |-> ReadLocals(dataLength),
                          consec |-> 0, echoed |-> 0, reads |-> stream.reads + 1]
            /\ last' = IF b.phase = "done"
                       THEN [op |-> "read_current_track", ret |-> b.ret, in |-> <<>>]
                       ELSE [op |-> "reading", ret |-> "", in |-> <<>>]
    /\ UNCHANGED <<sync, hw, dev, fdc>>

\* what one read of the streamed loop may return: nothing, track bytes while
\* the device streams, the next byte of the echo once it has heard the abort
StreamChunks ==
    {<<>>}
    \cup (IF stream.echoed = 0
          THEN {<<"d">>} \cup (IF priv.abortSignalled THEN {} ELSE {<<"d", "d">>})
          ELSE {})
    \cup (IF priv.abortStreaming /\ stream.echoed < Len(AbortEcho)
          THEN {<<AbortEcho[stream.echoed + 1]>>} ELSE {})

\* answers to an abort byte and to the forced disk check
\* (asked only in the polls that can send the one or make the other)
StreamInputs ==
    {[w |-> w, wf |-> f.wf, check |-> f.check] :
        w \in (IF priv.abortSignalled THEN {1} ELSE {0, 1}),
        f \in (IF stream.st.readFail < StreamFailLimit
               THEN {[wf |-> 1, check |-> [c |-> Unasked, r2 |-> NoByte]]}
               ELSE {[wf |-> wf, check |-> k] :
                        wf \in {0, 1},
                        k \in {[c |-> Ack, r2 |-> "1"],
                               [c |-> [Ack EXCEPT !.r = "#"], r2 |-> "#"],
                               [c |-> Unasked, r2 |-> NoByte]}})}

\* the read has returned ret
StreamReturned(ret) == [op |-> "read_current_track", ret |-> ret, in |-> <<>>]

\* one iteration of the streamed loop; the iteration that ends the loop also
\* returns from read_current_track
StreamPoll ==
    /\ stream.pc = "stream"
    /\ \E chunk \in StreamChunks, in \in StreamInputs :
        \E x \in {stream_poll(priv, stream.st, chunk, in)} :
            /\ priv' = x.p
            /\ io' = io \o x.ev
            /\ stream' = [stream EXCEPT
                    !.pc = IF x.st.ret = "" THEN "stream" ELSE "idle",
                    !.st = x.st,
                    !.consec = IF chunk = <<>> THEN @ + 1 ELSE 0,
                    !.echoed = IF chunk # <<>> /\ chunk[1] # "d" THEN @ + 1 ELSE @]
            /\ last' = IF x.st.ret = "" THEN last ELSE StreamReturned(x.st.ret)
    /\ UNCHANGED <<sync, hw, dev, fdc>>

\* one iteration of the non-HD loop; the iteration that ends the loop also
\* returns from read_current_track
PlainPoll ==
    /\ stream.pc = "plain"
    /\ \E r \in {"d", NUL, NoByte} :
        \E x \in {plain_poll(priv, stream.st, r)} :
            /\ priv' = x.p
            /\ io' = io \o x.ev
            /\ stream' = [stream EXCEPT !.pc = IF x.st.ret = "" THEN "plain" ELSE "idle",
                                        !.st = x.st]
            /\ last' = IF x.st.ret = "" THEN last ELSE StreamReturned(x.st.ret)
    /\ UNCHANGED <<sync, hw, dev, fdc>>

StreamNext == StreamStart \/ StreamPoll \/ PlainPoll

SpecStream == StreamInit /\ [][StreamNext]_vars

\* the read-fail counter has ended a streamed read
Starved ==
    /\ last.op = "read_current_track"
    /\ stream.pc = "idle"
    /\ stream.st.starved

\* the forced disk check went out
DiskChecked == \E i \in DOMAIN io : io[i] = WriteEv(COMMAND_CHECKDISKEXISTS)

\* C6 as stated: the read-fail counter ends a streamed read only after 30
\* empty polls in a row; read_current_track then returns READ_RESPONSE_FAILED
\* and the forced disk check has been made.
C6_AsStated ==
    Starved => /\ stream.consec >= StreamFailLimit
               /\ last.ret = "READ_RESPONSE_FAILED"
               /\ DiskChecked

\* empty polls that were not consecutive ended the read
C6_Accumulated ==
    /\ Starved
    /\ stream.consec < StreamFailLimit
    /\ stream.st.writePosition > 0

\* the read ended by the read-fail counter returned the disk check's code
C6_CheckCodeReturned ==
    /\ Starved
    /\ DiskChecked
    /\ last.ret = "OK"

----------------------------------------------------------------------------
(* Device Adapter: drawbridge_load, read_sector_from_device,                *)
(* drawbridge_fdd_seek, drawbridge_fdd_set_sector and drawbridge_close.     *)
(* A handler runs in a context c: the engine session p, the drawbridge_t    *)
(* dev, the transport calls ev, the engine calls of the sector read in      *)
(* progress (calls), one record per finished sector read (trace), the last  *)
(* assignment to `response`, and enabled: whether the last successful       *)
(* enable_reading call switched reading on.  The device answers a handler   *)
(* by a behaviour h that fixes the outcome of the n-th track read and the   *)
(* n-th seek of the handler.                                                *)

max_retries == 3

\* uint32_t calibration_track = (track < 40) ? track + 30 : track - 30;
calibration_track(track) == IF track < 40 THEN track + 30 ELSE track - 30

\* int data_length = dev->is_hd ? RAW_TRACKDATA_LENGTH_HD : RAW_TRACKDATA_LENGTH_DD;
data_length(d) == IF d.is_hd THEN RAW_TRACKDATA_LENGTH_HD ELSE RAW_TRACKDATA_LENGTH_DD

\* the device's answers to the n-th read_current_track call of a handler
ReadAnswer(h, n) ==
    LET kind == IF n <= Len(h.reads) THEN h.reads[n] ELSE h.rest IN
    CASE kind = "ok"      -> ReadOk
      [] kind = "nak"     -> [ReadOk EXCEPT !.c1 = Nak, !.c2 = Nak]
      [] kind = "starved" -> [ReadOk EXCEPT !.loop = "starved",
                                            !.check = [c |-> [Ack EXCEPT !.r = NoByte],
                                                       r2 |-> NoByte]]
      [] OTHER            -> [ReadOk EXCEPT !.loop = "starved",
                                            !.check = [c |-> Ack, r2 |-> "1"]]

\* the device's answers to the n-th select_track call of a handler
SeekAnswer(h, n) ==
    [w |-> 3, junk |-> "0",
     r |-> IF n <= Len(h.seeks) /\ h.seeks[n] = "fail" THEN "0" ELSE "1"]

SurfaceAnswer(h) == IF h.surface = "ok" THEN Ack ELSE Nak
MotorAnswers(h)  == IF h.motor = "ok" THEN <<Ack, Ack, Ack>> ELSE <<Nak, Ack, Ack>>

\* ghost of the drive and of the two track buffers: the track and surface
\* the drive head is on (-1: not known), and for each buffer the position
\* the head was on when a track read last filled it (NoCapture: never)
NoCapture == [at |-> -1, surface |-> -1]

\* g: the ghost the handler starts with
Context(p, d, g) ==
    [p |-> p, dev |-> d, ev |-> <<>>, calls |-> <<>>, trace |-> <<>>,
     response |-> "OK", enabled |-> g.readEnabled, nr |-> 0, ns |-> 0, ok |-> TRUE,
     drive |-> g.drive, prov |-> g.prov, captured |-> NoCapture]

\* response = <engine call>(dev->arduino, arg), which returned r
Called(c, f, arg, r) ==
    [c EXCEPT !.p = r.p, !.ev = @ \o r.ev, !.response = r.ret,
              !.calls = Append(@, [f |-> f, arg |-> arg, ret |-> r.ret])]

\* ghost: the head is on `track` after a select_track that returned OK
head_moved(c, track) ==
    IF c.response = "OK" THEN [c EXCEPT !.drive.at = track] ELSE c

adapter_select_track(c, h, track) ==
    head_moved([Called(c, "select_track", track,
                       arduino_interface_select_track(c.p, track, SeekAnswer(h, c.ns + 1)))
                EXCEPT !.ns = @ + 1], track)

\* a select_track call whose result is not assigned to response
adapter_calibrate(c, h, track) ==
    [adapter_select_track(c, h, track) EXCEPT !.response = c.response]

\* ghost: the surface is `side` after a select_surface that returned OK
surface_selected(c, side) ==
    IF c.response = "OK" THEN [c EXCEPT !.drive.surface = side] ELSE c

adapter_select_surface(c, h, side) ==
    surface_selected(Called(c, "select_surface", side,
                            arduino_interface_select_surface(c.p, side, SurfaceAnswer(h))),
                     side)

\* ghost: a read whose loop ran to its end unpacked a capture into the track
\* buffer; a read that returned before the unpack left the buffer as it was
track_unpacked(c, a) ==
    IF c.response = "OK" /\ a.loop = "complete"
    THEN [c EXCEPT !.captured = c.drive] ELSE c

adapter_read_current_track(c, h) ==
    track_unpacked(
        [Called(c, "read_current_track", data_length(c.dev),
                arduino_interface_read_current_track(c.p, data_length(c.dev),
                                                     ReadAnswer(h, c.nr + 1)))
         EXCEPT !.nr = @ + 1],
        ReadAnswer(h, c.nr + 1))

\* an enable_reading call of the adapter, after it returned r; the adapter
\* ignores the result in seek and close
motor_switched(c, enable, r) ==
    [c EXCEPT !.p = r.p, !.ev = @ \o r.ev, !.response = r.ret,
              !.enabled = IF r.ret = "OK" THEN enable ELSE @]

adapter_enable_reading(c, h, enable, reset, dontWait) ==
    motor_switched(c, enable,
        arduino_interface_enable_reading(c.p, enable, reset, dontWait, MotorAnswers(h)))

RECURSIVE read_track_retry(_, _, _, _)

\* variant: the calibration seek is not followed by the seek back
read_track_attempted_no_return(c, h, track, retry_count) ==
    IF c.response = "OK" THEN c
    ELSE IF retry_count < max_retries - 1
    THEN read_track_retry(adapter_calibrate(c, h, calibration_track(track)),
                          h, track, retry_count + 1)
    ELSE read_track_retry(c, h, track, retry_count + 1)

\* the body of the retry loop after its read_current_track call
read_track_attempted(c, h, track, retry_count) ==
    IF c.response = "OK" THEN c
    ELSE IF retry_count < max_retries - 1
    THEN read_track_retry(
            adapter_calibrate(adapter_calibrate(c, h, calibration_track(track)),
                              h, track),
            h, track, retry_count + 1)
    ELSE read_track_retry(c, h, track, retry_count + 1)

\* while (retry_count < max_retries)
read_track_retry(c, h, track, retry_count) ==
    IF retry_count < max_retries
    THEN read_track_attempted(adapter_read_current_track(c, h), h, track, retry_count)
    ELSE c

\* read_sector_from_device returns with the buffer filled as `buffer`
sector_done(c, track, head, sector, buffer) ==
    [c EXCEPT !.calls = <<>>,
              !.trace = Append(@, [track |-> track, head |-> head, sector |-> sector,
                                   calls |-> c.calls, buffer |-> buffer,
                                   enabled |-> c.enabled,
                                   prov |-> c.prov[head + 1],
                                   valid |-> c.dev.track_data_valid[head + 1]])]

\* the sector is looked up in the decoded track: its data, its data with
\* errors, or the 0xAA filler
read_sector_decoded(c, h, track, head, sector) ==
    sector_done(c, track, head, sector, h.decode)

\* after the retry loop
read_sector_captured(c, h, track, head, sector) ==
    IF c.response # "OK" THEN sector_done(c, track, head, sector, "zeros")
    ELSE read_sector_decoded([c EXCEPT !.dev.track_data_valid[head + 1] = TRUE,
                                       !.dev.cached_track = track,
                                       !.prov[head + 1] = IF c.captured # NoCapture
                                                          THEN c.captured ELSE @],
                             h, track, head, sector)

\* after select_surface
read_sector_surfaced(c, h, track, head, sector) ==
    IF c.response # "OK" THEN sector_done(c, track, head, sector, "zeros")
    ELSE IF ~c.dev.track_data_valid[head + 1] \/ c.dev.cached_track # track
    THEN read_sector_captured(read_track_retry([c EXCEPT !.captured = NoCapture],
                                               h, track, 0),
                              h, track, head, sector)
    ELSE read_sector_decoded(c, h, track, head, sector)

read_sector_positioned(c, h, track, head, sector) ==
    read_sector_surfaced(
        adapter_select_surface(c, h, IF head = 0 THEN DISK_SURFACE_LOWER
                                     ELSE DISK_SURFACE_UPPER),
        h, track, head, sector)

\* after the select_track call made when dev->track != track
read_sector_sought(c, h, track, head, sector) ==
    IF c.response # "OK" THEN sector_done(c, track, head, sector, "zeros")
    ELSE read_sector_positioned([c EXCEPT !.dev.track = track,
                                         !.dev.track_data_valid = <<FALSE, FALSE>>],
                                h, track, head, sector)

read_sector_from_device(c, h, track, head, sector) ==
    IF ~c.dev.disk_inserted THEN sector_done(c, track, head, sector, "zeros")
    ELSE IF c.dev.track # track
    THEN read_sector_sought(adapter_select_track(c, h, track), h, track, head, sector)
    ELSE read_sector_positioned(c, h, track, head, sector)

\* the two loops of drawbridge_fdd_seek, from (side, sector) on
RECURSIVE seek_sectors(_, _, _, _, _)
seek_sectors(c, h, track, side, sector) ==
    IF side >= c.dev.heads THEN c
    ELSE IF sector > c.dev.sectors THEN seek_sectors(c, h, track, side + 1, 1)
    ELSE seek_sectors(read_sector_from_device(c, h, track, side, sector),
                      h, track, side, sector + 1)

drawbridge_fdd_seek(c, h, track) ==
    IF track >= c.dev.tracks THEN c
    ELSE adapter_enable_reading(
            seek_sectors(IF c.dev.track # track
                         THEN adapter_enable_reading(c, h, TRUE, FALSE, FALSE)
                         ELSE c,
                         h, track, 0, 1),
            h, FALSE, FALSE, FALSE)

\* drawbridge_fdd_set_sector after its read_sector_from_device call
set_sector_read(c, cyl, head, r) ==
    [c EXCEPT !.dev.current_sector_track = cyl, !.dev.current_sector_head = head,
              !.dev.current_sector_r = r, !.dev.current_sector_valid = 1,
              !.dev.current_sector_data = c.trace[Len(c.trace)].buffer]

drawbridge_fdd_set_sector(c, h, cyl, head, r) ==
    IF cyl >= c.dev.tracks \/ head >= c.dev.heads \/ r < 1 \/ r > c.dev.sectors
    THEN c
    ELSE IF \/ c.dev.current_sector_track # cyl
            \/ c.dev.current_sector_head # head
            \/ c.dev.current_sector_r # r
            \/ c.dev.current_sector_valid = 0
    THEN set_sector_read(read_sector_from_device(c, h, cyl, head, r), cyl, head, r)
    ELSE c

\* ghost of the adapter: readEnabled is TRUE from an enable_reading(true)
\* that returned OK until a disable that returned OK or the port is closed
NoMotor == [readEnabled |-> FALSE, ops |-> 0, drive |-> NoCapture,
            prov |-> <<NoCapture, NoCapture>>]

\* dev as drawbridge_load initialises it before the geometry is detected
NewDevice ==
    [loaded |-> TRUE, disk_inserted |-> FALSE, is_hd |-> FALSE,
     tracks |-> 0, heads |-> 0, sectors |-> 0, track |-> -1, cached_track |-> -1,
     track_data_valid |-> <<FALSE, FALSE>>,
     current_sector_track |-> 255, current_sector_head |-> 255,
     current_sector_r |-> 255, current_sector_valid |-> 0,
     current_sector_data |-> "zeros"]

\* arduino_interface_close_port has returned cl and the device is freed
device_freed(c, cl) ==
    [c EXCEPT !.p = cl.p, !.ev = @ \o cl.ev, !.dev = NoDevice, !.enabled = FALSE,
              !.ok = FALSE]

\* arduino_interface_close_port (called by the handler or, on a port still
\* open, by arduino_interface_destroy), then the device is freed;
\* a: the answer to the disable command close_port sends
close_and_free(c, a) == device_freed(c, arduino_interface_close_port(c.p, a))

\* the failure exits of drawbridge_load
load_failed(c, in) == close_and_free(c, in.close)

\* detect_floppy_geometry after set_disk_capacity
geometry_capacity_set(c, isHD) ==
    IF c.response # "OK" THEN [c EXCEPT !.ok = FALSE]
    ELSE [c EXCEPT !.dev.tracks = 80, !.dev.heads = 2,
                   !.dev.sectors = IF isHD THEN 18 ELSE 9]

geometry_density(c, isHD, in) ==
    geometry_capacity_set(
        Called([c EXCEPT !.dev.is_hd = isHD], "set_disk_capacity", isHD,
               arduino_interface_set_disk_capacity(c.p, isHD, in.capacity)),
        isHD)

\* detect_floppy_geometry after check_disk_capacity returned cap
geometry_capacity_checked(c, cap, in) ==
    geometry_density(Called(c, "check_disk_capacity", FALSE, cap),
                     cap.ret = "OK" /\ cap.isHD, in)

\* detect_floppy_geometry after check_for_disk
geometry_disk_checked(c, in) ==
    IF c.response # "OK" THEN [c EXCEPT !.dev.disk_inserted = FALSE, !.ok = FALSE]
    ELSE geometry_capacity_checked(
            [c EXCEPT !.dev.disk_inserted = TRUE],
            arduino_interface_check_disk_capacity(c.p, FALSE, in.density), in)

detect_floppy_geometry(c, in) ==
    geometry_disk_checked(
        Called(c, "check_for_disk", TRUE,
               arduino_interface_check_for_disk(c.p, TRUE, in.check)), in)

load_detected(c, in) == IF ~c.ok THEN load_failed(c, in) ELSE c

\* drawbridge_load after enable_reading(true, true, false)
load_enabled(c, in) ==
    IF c.response # "OK" THEN load_failed(c, in)
    ELSE load_detected(
            detect_floppy_geometry(
                [c EXCEPT !.dev = NewDevice,
                          !.drive = [at |-> 0, surface |-> DISK_SURFACE_UPPER],
                          !.prov = <<NoCapture, NoCapture>>], in), in)

\* drawbridge_load after open_port
load_opened(c, in) ==
    IF c.response # "OK" THEN load_failed(c, in)
    ELSE load_enabled(
            motor_switched(c, TRUE,
                arduino_interface_enable_reading(c.p, TRUE, TRUE, FALSE, in.motor)),
            in)

\* in: [open, motor, check, density, capacity, close], the answers to the
\* engine calls of the handler
drawbridge_load(in) ==
    load_opened(
        Called(Context(arduino_interface_create, NoDevice, NoMotor), "open_port", "",
               arduino_interface_open_port(arduino_interface_create, in.open)),
        in)

drawbridge_close(c, h, a) ==
    close_and_free(IF c.p.isOpen
                   THEN adapter_enable_reading(c, h, FALSE, FALSE, FALSE)
                   ELSE c, a)

----------------------------------------------------------------------------
(* SpecAdapter: the Device Adapter's handlers called one after another      *)

MaxAdapterOps == 3     \* handler calls in one run

AdapterInit ==
    /\ priv = arduino_interface_create
    /\ io = <<>>
    /\ last = NoLast
    /\ sync = Idle
    /\ stream = NoStream
    /\ hw = NoMotor
    /\ dev = NoDevice
    /\ fdc = NoFdc

LoadOk == [open |-> OpenOk, motor |-> <<Ack, Ack, Ack>>,
           check |-> [c |-> Ack, r2 |-> "#"], density |-> [c |-> Ack, r2 |-> "H"],
           capacity |-> Ack, close |-> Ack]

\* the ways the device answers drawbridge_load
LoadInputs ==
    {LoadOk,
     [LoadOk EXCEPT !.density = [c |-> Ack, r2 |-> "D"]],
     [LoadOk EXCEPT !.density = [c |-> Nak, r2 |-> NoByte]],
     [LoadOk EXCEPT !.open = [OpenOk EXCEPT !.open = "NOT_FOUND"]],
     [LoadOk EXCEPT !.open = [OpenOk EXCEPT !.cfg = FALSE]],
     [LoadOk EXCEPT !.motor = <<Ack, Nak, Ack>>],
     [LoadOk EXCEPT !.check = [c |-> [Ack EXCEPT !.r = "#"], r2 |-> "#"]],
     [LoadOk EXCEPT !.capacity = Nak]}

Healthy == [reads |-> <<>>, rest |-> "ok", seeks |-> <<>>, surface |-> "ok",
            motor |-> "ok", decode |-> "data"]

\* the ways the device behaves during a handler
Behaviours ==
    {Healthy,
     [Healthy EXCEPT !.reads = <<"nak">>],
     [Healthy EXCEPT !.reads = <<"starved", "nak">>],
     [Healthy EXCEPT !.reads = <<"nak", "nak", "nak">>],
     [Healthy EXCEPT !.rest = "nak"],
     [Healthy EXCEPT !.reads = <<"starved and disk present">>],
     [Healthy EXCEPT !.seeks = <<"fail">>],
     [Healthy EXCEPT !.reads = <<"nak">>, !.seeks = <<"ok", "fail", "fail">>],
     [Healthy EXCEPT !.reads = <<"nak">>, !.seeks = <<"ok", "ok", "fail">>],
     [Healthy EXCEPT !.surface = "fail"],
     [Healthy EXCEPT !.motor = "fail"],
     [Healthy EXCEPT !.decode = "errors"],
     [Healthy EXCEPT !.decode = "filler"]}

AdapterTracks == {5, 45}

\* a handler has returned in context c
Handled(op, arg, c) ==
    /\ priv' = c.p
    /\ dev' = c.dev
    /\ io' = c.ev
    /\ hw' = [readEnabled |-> c.enabled, ops |-> hw.ops + 1, drive |-> c.drive,
              prov |-> c.prov]
    /\ last' = [op |-> op, ret |-> c.response, in |-> arg, trace |-> c.trace]
    /\ UNCHANGED <<sync, stream, fdc>>

Load ==
    /\ ~dev.loaded
    /\ hw.ops < MaxAdapterOps
    /\ \E in \in LoadInputs :
        \E c \in {drawbridge_load(in)} : Handled("load", in, c)

Seek ==
    /\ dev.loaded
    /\ hw.ops < MaxAdapterOps
    /\ \E track \in AdapterTracks \cup {80}, h \in Behaviours :
        \E c \in {drawbridge_fdd_seek(Context(priv, dev, hw), h, track)} :
            Handled("seek", <<track>>, c)

SetSector ==
    /\ dev.loaded
    /\ hw.ops < MaxAdapterOps
    /\ \E cyl \in AdapterTracks \cup {80}, head \in {0, 1}, r \in {1, 2},
          h \in Behaviours :
        \E c \in {drawbridge_fdd_set_sector(Context(priv, dev, hw),
                                            h, cyl, head, r)} :
            Handled("set_sector", <<cyl, head, r>>, c)

Close ==
    /\ dev.loaded
    /\ hw.ops < MaxAdapterOps
    /\ \E h \in {Healthy, [Healthy EXCEPT !.motor = "fail"]} :
        \E c \in {drawbridge_close(Context(priv, dev, hw), h, Ack)} :
            Handled("close", <<>>, c)

AdapterNext == Load \/ Seek \/ SetSector \/ Close

SpecAdapter == AdapterInit /\ [][AdapterNext]_vars

\* the engine calls of a sector read that are track reads
TrackReads(calls) == {i \in DOMAIN calls : calls[i].f = "read_current_track"}

FailedReads(calls) == {i \in TrackReads(calls) : calls[i].ret # "OK"}

SectorReads == IF last.op \in {"seek", "set_sector"} THEN DOMAIN last.trace ELSE {}

Distance(a, b) == IF a < b THEN b - a ELSE a - b

\* C7: in every sector read of the adapter read_current_track is called at
\* most 3 times; a failed call that is not the third is followed at once by a
\* select_track to a track at least 30 away and within 0..83 and then by a
\* select_track back to the target; the third failed call is followed by no
\* engine call; and when three calls failed the buffer handed back is the 512
\* zero bytes and the cache of that side is not valid.
C7_RetryCalibrate ==
    \A k \in SectorReads :
        /\ Cardinality(TrackReads(last.trace[k].calls)) <= max_retries
        /\ \A i \in FailedReads(last.trace[k].calls) :
            IF Cardinality({j \in TrackReads(last.trace[k].calls) : j <= i}) < max_retries
            THEN /\ i + 2 <= Len(last.trace[k].calls)
                 /\ last.trace[k].calls[i + 1].f = "select_track"
                 /\ Distance(last.trace[k].calls[i + 1].arg, last.trace[k].track) >= 30
                 /\ last.trace[k].calls[i + 1].arg \in 0..MaxTrackIndex
                 /\ last.trace[k].calls[i + 2].f = "select_track"
                 /\ last.trace[k].calls[i + 2].arg = last.trace[k].track
            ELSE i = Len(last.trace[k].calls)
        /\ Cardinality(FailedReads(last.trace[k].calls)) = max_retries
            => /\ last.trace[k].buffer = "zeros"
               /\ ~last.trace[k].valid

\* C7 witness: a sector read whose three track reads all failed, with the two
\* calibration seeks and seeks back in between, handed back zeros
C7_Witness ==
    \E k \in SectorReads :
        /\ Cardinality(FailedReads(last.trace[k].calls)) = max_retries
        /\ Cardinality({i \in DOMAIN last.trace[k].calls :
                            last.trace[k].calls[i].f = "select_track"
                            /\ last.trace[k].calls[i].arg # last.trace[k].track}) = 2
        /\ last.trace[k].buffer = "zeros"
        /\ ~last.trace[k].valid

\* C10 as stated: in every run of load, seek and set_sector a track read is
\* issued only while reading is enabled.
C10_AsStated ==
    \A k \in SectorReads :
        TrackReads(last.trace[k].calls) # {} => last.trace[k].enabled

\* set_sector read a track after a seek had switched reading off
C10_ReadWhileDisabled ==
    /\ last.op = "set_sector"
    /\ \E k \in SectorReads :
        /\ TrackReads(last.trace[k].calls) # {}
        /\ ~last.trace[k].enabled

\* the same without a change of track: the sector read did not have to seek,
\* the track had not been captured during the seek, and set_sector captured
\* it with reading switched off
C10_SameTrackReadWhileDisabled ==
    /\ C10_ReadWhileDisabled
    /\ \A k \in SectorReads : last.trace[k].calls[1].f = "select_surface"

\* the sector reads that handed back decoded data
Served == {k \in SectorReads : last.trace[k].buffer # "zeros"}

\* C13 as stated: a sector of (track, head) is served only from a capture
\* that a track read made while the head was on that track and surface.
C13_AsStated ==
    \A k \in Served :
        last.trace[k].prov =
            [at |-> last.trace[k].track,
             surface |-> IF last.trace[k].head = 0 THEN DISK_SURFACE_LOWER
                         ELSE DISK_SURFACE_UPPER]

\* a sector was served from a buffer no track read had filled: the read was
\* ended by its read-fail counter and returned OK
C13_NothingCaptured ==
    \E k \in Served :
        /\ last.trace[k].prov = NoCapture
        /\ TrackReads(last.trace[k].calls) # {}

\* a sector was served from a capture made on the calibration track: the
\* seek back had failed
C13_WrongTrack ==
    \E k \in Served :
        /\ last.trace[k].prov # NoCapture
        /\ last.trace[k].prov.at = calibration_track(last.trace[k].track)

----------------------------------------------------------------------------
(* IBM MFM decoder: findSectors_IBM and the sector list of a DecodedTrack.  *)
(* A capture is the sequence of sync marks the scan meets, each with the    *)
(* fields extractMFMDecodeRaw takes from the bits behind it: an IDAM with   *)
(* its header bytes, a DAM with its data field, an IAM.  crcOk says whether *)
(* the stored CRC equals crc16 of the field.  The data bytes of a DAM are   *)
(* stood for by its index in the capture.                                   *)

IBM_DD_SECTORS == 9
IBM_HD_SECTORS == 18
MaxSectorNumber == 22        \* if (sector.header.sector <= 22)
GuessedHeaderErrors == 240   \* sector.headerErrors = 0xF0
NoHeaderErrors == 65535      \* sector.headerErrors = 0xFFFF; tmp.numErrors = 0xFFFF

\* the list is searched from its head; 0 stands for NULL
find_sector_entry(track, sectorNumber) ==
    LET found == {i \in DOMAIN track.sectors :
                     track.sectors[i].sectorNumber = sectorNumber}
    IN IF found = {} THEN 0 ELSE CHOOSE i \in found : \A j \in found : i <= j

\* the new entry becomes the head of the list
add_sector_entry(track, sectorNumber, sector) ==
    [track EXCEPT !.sectors = <<[sectorNumber |-> sectorNumber, sector |-> sector]>> \o @]

update_sector_entry(track, entry, sector) ==
    [track EXCEPT !.sectors[entry].sector = sector]

\* the locals of findSectors_IBM before the scan; copies and orphans are
\* ghosts: the copies handed to the sector list, and the DAMs met without a
\* header together with the sector number guessed for them
DecoderLocals ==
    [headerFound |-> FALSE, headerErrors |-> NoHeaderErrors,
     header |-> [cylinder |-> 0, head |-> 0, sector |-> 0, length |-> 0],
     lastSectorNumber |-> -1, sectorSize |-> 2,
     track |-> [sectors |-> <<>>, sectorsWithErrors |-> 0],
     copies |-> <<>>, orphans |-> <<>>]

HeaderErrors_lower(it, cylinder, upperSide) ==
    (IF it.sector < 1 THEN 1 ELSE 0)
    + (IF it.crcOk THEN 0 ELSE 1)
    + (IF it.cylinder # cylinder THEN 1 ELSE 0)
    + (IF it.head # (IF upperSide THEN 0 ELSE 1) THEN 1 ELSE 0)

\* the errors counted against a header, in the order of the code:
\* sector below 1, CRC, cylinder, head
HeaderErrors(it, cylinder, upperSide) ==
    (IF it.sector < 1 THEN 1 ELSE 0)
    + (IF it.crcOk THEN 0 ELSE 1)
    + (IF it.cylinder # cylinder THEN 1 ELSE 0)
    + (IF it.head # (IF upperSide THEN 1 ELSE 0) THEN 1 ELSE 0)

header_matched_unclamped(d, it, cylinder, upperSide) ==
    [d EXCEPT !.headerFound = TRUE,
              !.headerErrors = HeaderErrors(it, cylinder, upperSide),
              !.header = [cylinder |-> it.cylinder, head |-> it.head,
                          sector |-> it.sector, length |-> it.length],
              !.sectorSize = IF it.sector >= 1 /\ it.crcOk THEN it.length ELSE @,
              !.lastSectorNumber = it.sector]

\* decoded == MFM_SYNC_SECTOR_HEADER
header_matched(d, it, cylinder, upperSide) ==
    [d EXCEPT !.headerFound = TRUE,
              !.headerErrors = HeaderErrors(it, cylinder, upperSide),
              !.header = [cylinder |-> it.cylinder, head |-> it.head,
                          sector |-> IF it.sector < 1 THEN 1 ELSE it.sector,
                          length |-> it.length],
              !.sectorSize = IF it.sector >= 1 /\ it.crcOk THEN it.length ELSE @,
              !.lastSectorNumber = IF it.sector < 1 THEN 1 ELSE it.sector]

sector_stored_latest(track, sectorNumber, sec) ==
    IF find_sector_entry(track, sectorNumber) = 0
    THEN add_sector_entry(track, sectorNumber, sec)
    ELSE update_sector_entry(track, find_sector_entry(track, sectorNumber), sec)

\* the copy `sec` of a sector is offered to the list: "See if this already
\* exists"
sector_stored(track, sectorNumber, sec) ==
    IF find_sector_entry(track, sectorNumber) = 0
    THEN IF sectorNumber + 1 <= MaxSectorNumber
         THEN add_sector_entry(track, sectorNumber, sec)
         ELSE track
    ELSE IF track.sectors[find_sector_entry(track, sectorNumber)].sector.numErrors
                > sec.numErrors
         THEN update_sector_entry(track, find_sector_entry(track, sectorNumber), sec)
         ELSE track

\* the data field behind a DAM is read for the header in d; i: the index of
\* the DAM in the capture
data_read(d, sec, i) ==
    [d EXCEPT !.track = sector_stored(d.track, d.header.sector - 1, sec),
              !.copies = Append(@, [sectorNumber |-> d.header.sector - 1,
                                    numErrors |-> sec.numErrors, data |-> i]),
              !.headerErrors = NoHeaderErrors,
              !.headerFound = FALSE]

data_matched_clean_only(d, it, i, cylinder, upperSide) ==
    IF ~d.headerFound \/ d.headerErrors # 0
    THEN [d EXCEPT !.headerFound = FALSE]
    ELSE data_read(d, [numErrors |-> IF it.crcOk THEN 0 ELSE 1,
                       data |-> i, size |-> 2 ^ (7 + d.header.length)], i)

\* decoded == MFM_SYNC_SECTOR_DATA: without a header one is guessed, but
\* headerFound stays false and the data field is not read
data_matched(d, it, i, cylinder, upperSide) ==
    IF ~d.headerFound
    THEN [d EXCEPT !.lastSectorNumber = @ + 1,
                   !.header = [cylinder |-> cylinder,
                               head |-> IF upperSide THEN 1 ELSE 0,
                               sector |-> (d.lastSectorNumber + 1) % 256,
                               length |-> d.sectorSize],
                   !.headerErrors = GuessedHeaderErrors,
                   !.orphans = Append(@, [data |-> i,
                                          sector |-> (d.lastSectorNumber + 1) % 256])]
    ELSE data_read(d, [numErrors |-> d.headerErrors + (IF it.crcOk THEN 0 ELSE 1),
                       data |-> i, size |-> 2 ^ (7 + d.header.length)], i)

\* decoded == MFM_SYNC_TRACK_HEADER
track_header_matched(d) ==
    [d EXCEPT !.headerFound = FALSE, !.headerErrors = NoHeaderErrors,
              !.lastSectorNumber = -1]

\* the scan of the capture from its i-th sync mark on
RECURSIVE scan_track(_, _, _, _, _)
scan_track(d, capture, i, cylinder, upperSide) ==
    IF i > Len(capture) THEN d
    ELSE scan_track(
            CASE capture[i].k = "IDAM" -> header_matched(d, capture[i], cylinder, upperSide)
              [] capture[i].k = "DAM"  -> data_matched(d, capture[i], i, cylinder, upperSide)
              [] OTHER                 -> track_header_matched(d),
            capture, i + 1, cylinder, upperSide)

RECURSIVE add_dummy_sectors_only(_, _, _, _, _)
add_dummy_sectors_only(track, sec, expectedSectors, expectedNumSectors, sectorDataSize) ==
    IF sec >= expectedSectors THEN track
    ELSE add_dummy_sectors_only(
            IF find_sector_entry(track, sec) = 0 /\ expectedNumSectors # 0
            THEN [add_sector_entry(track, sec,
                                   [numErrors |-> NoHeaderErrors, data |-> 0,
                                    size |-> sectorDataSize])
                  EXCEPT !.sectorsWithErrors = @ + 1]
            ELSE track,
            sec + 1, expectedSectors, expectedNumSectors, sectorDataSize)

\* "Add dummy sectors up to expectedSectors", from sector number sec on; a
\* dummy sector is zero-filled (data 0)
RECURSIVE add_dummy_sectors(_, _, _, _, _)
add_dummy_sectors(track, sec, expectedSectors, expectedNumSectors, sectorDataSize) ==
    IF sec >= expectedSectors THEN track
    ELSE add_dummy_sectors(
            IF find_sector_entry(track, sec) = 0
            THEN IF expectedNumSectors # 0
                 THEN [add_sector_entry(track, sec,
                                        [numErrors |-> NoHeaderErrors, data |-> 0,
                                         size |-> sectorDataSize])
                       EXCEPT !.sectorsWithErrors = @ + 1]
                 ELSE track
            ELSE IF track.sectors[find_sector_entry(track, sec)].sector.numErrors # 0
                 THEN [track EXCEPT !.sectorsWithErrors = @ + 1]
                 ELSE track,
            sec + 1, expectedSectors, expectedNumSectors, sectorDataSize)

\* findSectors_IBM after the scan left the locals d
sectors_completed(d, isHD, expectedNumSectors) ==
    [d EXCEPT !.track = add_dummy_sectors(
                            [d.track EXCEPT !.sectorsWithErrors = 0], 0,
                            IF expectedNumSectors # 0 THEN expectedNumSectors
                            ELSE IF isHD THEN IBM_HD_SECTORS ELSE IBM_DD_SECTORS,
                            expectedNumSectors, 2 ^ (7 + d.sectorSize))]

\* the result carries the DecodedTrack (track) and the ghosts
findSectors_IBM(capture, isHD, cylinder, head, expectedNumSectors) ==
    sectors_completed(scan_track(DecoderLocals, capture, 1, cylinder, head = 1),
                      isHD, expectedNumSectors)

\* the 512 bytes handed to the caller: the first `taken` bytes are those of
\* a decoded copy (data: the DAM it was read from, 0: a zero-filled dummy),
\* or the four bytes in `bytes`; all further bytes are `fill`
sector_copied(sec) ==
    [data |-> sec.data, taken |-> IF sec.size >= 512 THEN 512 ELSE sec.size,
     bytes |-> <<>>, fill |-> 0]

sector_looked_up_zeros(decoded_track, track, head, sector) ==
    IF find_sector_entry(decoded_track, sector - 1) # 0
    THEN sector_copied(decoded_track.sectors[find_sector_entry(decoded_track, sector - 1)].sector)
    ELSE [data |-> 0, taken |-> 0, bytes |-> <<>>, fill |-> 0]

\* variant: only a copy without errors is handed out
sector_looked_up_clean_only(decoded_track, track, head, sector) ==
    IF find_sector_entry(decoded_track, sector - 1) # 0
       /\ decoded_track.sectors[find_sector_entry(decoded_track, sector - 1)].sector.numErrors = 0
    THEN sector_copied(decoded_track.sectors[find_sector_entry(decoded_track, sector - 1)].sector)
    ELSE [data |-> 0, taken |-> 0,
          bytes |-> <<track % 256, head % 256, sector % 256, 2>>, fill |-> 170]

\* "Look for the requested sector in the decoded track"
sector_looked_up(decoded_track, track, head, sector) ==
    IF find_sector_entry(decoded_track, sector - 1) # 0
       /\ decoded_track.sectors[find_sector_entry(decoded_track, sector - 1)].sector.numErrors < 255
    THEN sector_copied(decoded_track.sectors[find_sector_entry(decoded_track, sector - 1)].sector)
    ELSE [data |-> 0, taken |-> 0,
          bytes |-> <<track % 256, head % 256, sector % 256, 2>>, fill |-> 170]

----------------------------------------------------------------------------
(* SpecDecode: findSectors_IBM applied to one capture.  fdc holds the       *)
(* capture and the arguments of the call and, once decoded, the result.     *)

MaxItems == 4

\* the sector headers a capture may hold: cylinder 3 or 4, head 1, sector
\* fields 0, 1, 5 and 23, size code 2
Headers ==
    {[k |-> "IDAM", cylinder |-> 3, head |-> 1, sector |-> s, length |-> 2,
      crcOk |-> ok] : s \in {0, 1, 5, 23}, ok \in BOOLEAN}
    \cup {[k |-> "IDAM", cylinder |-> 4, head |-> 1, sector |-> 5, length |-> 2,
           crcOk |-> TRUE]}

DataFields == {[k |-> "DAM", crcOk |-> ok] : ok \in BOOLEAN}

Marks == Headers \cup DataFields \cup {[k |-> "IAM"]}

Captures == UNION {[1..len -> Marks] : len \in 0..MaxItems}

\* read_sector_from_device passes dev->track, the head and dev->sectors
DecodeInit ==
    /\ priv = arduino_interface_create
    /\ io = <<>>
    /\ last = NoLast
    /\ sync = Idle
    /\ stream = NoStream
    /\ hw = NoMotor
    /\ dev = NoDevice
    /\ fdc \in [pc : {"captured"}, capture : Captures, isHD : {FALSE},
                cylinder : {3}, head : {0, 1}, expectedNumSectors : {0, 2, 9}]

Decode ==
    /\ fdc.pc = "captured"
    /\ fdc' = [pc |-> "decoded", capture |-> fdc.capture, isHD |-> fdc.isHD,
               cylinder |-> fdc.cylinder, head |-> fdc.head,
               expectedNumSectors |-> fdc.expectedNumSectors,
               out |-> findSectors_IBM(fdc.capture, fdc.isHD, fdc.cylinder,
                                       fdc.head, fdc.expectedNumSectors)]
    /\ UNCHANGED <<priv, io, last, sync, stream, hw, dev>>

\* read_sector_from_device looks the requested sector up in the track it
\* decoded for dev->track and the head
LookUp ==
    /\ fdc.pc = "decoded"
    /\ \E sector \in {1, 5} :
          fdc' = [pc |-> "served", capture |-> fdc.capture, isHD |-> fdc.isHD,
                  cylinder |-> fdc.cylinder, head |-> fdc.head,
                  expectedNumSectors |-> fdc.expectedNumSectors, out |-> fdc.out,
                  sector |-> sector,
                  buffer |-> sector_looked_up(fdc.out.track, fdc.cylinder, fdc.head,
                                              sector)]
    /\ UNCHANGED <<priv, io, last, sync, stream, hw, dev>>

DecodeNext == Decode \/ LookUp

SpecDecode == DecodeInit /\ [][DecodeNext]_vars

Decoded == fdc.pc = "decoded"

Entries == fdc.out.track.sectors

Copies == {fdc.out.copies[i] : i \in DOMAIN fdc.out.copies}

\* C14: after a decode no two entries of the sector list have the same key;
\* for every copy of a sector read from the capture with a header sector
\* number up to 22 the list has an entry under its key which is one of the
\* copies of that key and has no more errors than any of them; a copy whose
\* header sector number is above 22 is not in the list.
C14_BestCopyKept ==
    Decoded =>
        /\ \A i, j \in DOMAIN Entries :
              Entries[i].sectorNumber = Entries[j].sectorNumber => i = j
        /\ \A c \in Copies :
              IF c.sectorNumber + 1 > MaxSectorNumber
              THEN \A i \in DOMAIN Entries :
                      /\ Entries[i].sectorNumber # c.sectorNumber
                      /\ Entries[i].sector.data # c.data
              ELSE \E i \in DOMAIN Entries :
                      /\ Entries[i].sectorNumber = c.sectorNumber
                      /\ Entries[i].sector.numErrors <= c.numErrors
                      /\ \E b \in Copies :
                            /\ b.sectorNumber = c.sectorNumber
                            /\ b.numErrors = Entries[i].sector.numErrors
                            /\ b.data = Entries[i].sector.data

\* two copies of one sector were read, the second with fewer errors, and the
\* second is the one in the list
C14_Witness ==
    /\ Decoded
    /\ \E a, b \in Copies :
          /\ a.sectorNumber = b.sectorNumber
          /\ a.data < b.data
          /\ b.numErrors < a.numErrors
          /\ \E i \in DOMAIN Entries :
                /\ Entries[i].sectorNumber = b.sectorNumber
                /\ Entries[i].sector.data = b.data

\* a copy with header sector number 23 was read
C14_AboveLimit ==
    Decoded /\ \E c \in Copies : c.sectorNumber + 1 > MaxSectorNumber

\* the entry the list holds under key k (the first one found)
EntryOf(k) == Entries[find_sector_entry(fdc.out.track, k)]

IsPlaceholder(e) == e.sector.numErrors = NoHeaderErrors /\ e.sector.data = 0

\* C15: after a decode with expectedNumSectors n > 0 every key 0..n-1 is in
\* the list; a key no copy was read for holds a zero-filled placeholder with
\* the error count 0xFFFF; sectorsWithErrors is the number of keys 0..n-1
\* that hold a placeholder or an entry with a non-zero error count; a
\* capture without any sync mark and n = 9 gives nine placeholders and
\* sectorsWithErrors = 9.
C15_Placeholders ==
    (Decoded /\ fdc.expectedNumSectors > 0) =>
        /\ \A k \in 0..(fdc.expectedNumSectors - 1) :
              /\ find_sector_entry(fdc.out.track, k) # 0
              /\ (\A c \in Copies : c.sectorNumber # k) => IsPlaceholder(EntryOf(k))
              /\ IsPlaceholder(EntryOf(k)) => (\A c \in Copies : c.sectorNumber # k)
        /\ fdc.out.track.sectorsWithErrors =
              Cardinality({k \in 0..(fdc.expectedNumSectors - 1) :
                              IsPlaceholder(EntryOf(k))
                              \/ EntryOf(k).sector.numErrors # 0})
        /\ (fdc.capture = <<>> /\ fdc.expectedNumSectors = 9) =>
              /\ Len(Entries) = 9
              /\ \A i \in DOMAIN Entries : IsPlaceholder(Entries[i])
              /\ fdc.out.track.sectorsWithErrors = 9

\* nine sectors expected: one read without errors, one read with errors,
\* seven placeholders
C15_Witness ==
    /\ Decoded
    /\ fdc.expectedNumSectors = 9
    /\ \E c \in Copies : c.sectorNumber = 4 /\ c.numErrors = 0
    /\ \E k \in 0..8 : ~IsPlaceholder(EntryOf(k)) /\ EntryOf(k).sector.numErrors # 0
    /\ fdc.out.track.sectorsWithErrors = 8

\* nothing but placeholders
C15_NoSync ==
    /\ Decoded
    /\ fdc.expectedNumSectors = 9
    /\ fdc.capture = <<>>
    /\ fdc.out.track.sectorsWithErrors = 9

Orphans == {fdc.out.orphans[i] : i \in DOMAIN fdc.out.orphans}

\* C16: a data field whose DAM is met without a preceding header is recorded
\* under the sector number guessed for it (the last seen number plus one):
\* the list has an entry under that key which is not a placeholder.
C16_AsStated ==
    Decoded =>
        \A o \in Orphans :
            /\ find_sector_entry(fdc.out.track, o.sector - 1) # 0
            /\ ~IsPlaceholder(EntryOf(o.sector - 1))

\* sector 5 was read, the next DAM had no header: sector 6 is guessed for it
\* and nothing is stored under key 5
C16_GuessDropped ==
    /\ Decoded
    /\ \E c \in Copies : c.sectorNumber = 4
    /\ \E o \in Orphans : o.sector = 6 /\ find_sector_entry(fdc.out.track, 5) = 0

Sector5 == [k |-> "IDAM", cylinder |-> 3, head |-> 1, sector |-> 5, length |-> 2,
            crcOk |-> TRUE]

\* the capture holds the header of sector 5 with a good CRC, directly
\* followed by a data field with a good CRC, and no other header or data
\* field; it is decoded for cylinder 3, head 1
OnePairForSector5(i) ==
    /\ i \in DOMAIN fdc.capture /\ i + 1 \in DOMAIN fdc.capture
    /\ fdc.capture[i] = Sector5
    /\ fdc.capture[i + 1] = [k |-> "DAM", crcOk |-> TRUE]
    /\ \A j \in DOMAIN fdc.capture : j \notin {i, i + 1} => fdc.capture[j].k = "IAM"
    /\ fdc.cylinder = 3 /\ fdc.head = 1

\* C17: decoding a capture with one valid IDAM+DAM pair for sector 5
\* (cylinder 3, head 1, size code 2) for cylinder 3, head 1 gives a list with
\* exactly one entry under key 4; that entry has error count 0 and holds the
\* 512 bytes of the data field, and the list has no other entry that was
\* read from the capture (none at all when no sector count is expected).
C17_OnePair ==
    \A i \in 1..MaxItems :
        (Decoded /\ OnePairForSector5(i)) =>
            /\ Cardinality({e \in DOMAIN Entries : Entries[e].sectorNumber = 4}) = 1
            /\ EntryOf(4).sector = [numErrors |-> 0, data |-> i + 1, size |-> 512]
            /\ \A e \in DOMAIN Entries :
                  Entries[e].sectorNumber # 4 => IsPlaceholder(Entries[e])
            /\ fdc.expectedNumSectors = 0 => Len(Entries) = 1

C17_Witness ==
    /\ Decoded
    /\ OnePairForSector5(1)
    /\ fdc.expectedNumSectors = 0
    /\ Len(Entries) = 1
    /\ Entries[1].sectorNumber = 4

\* with nine sectors expected the other eight keys hold placeholders
C17_AmongPlaceholders ==
    /\ Decoded
    /\ OnePairForSector5(2)
    /\ fdc.expectedNumSectors = 9
    /\ Len(Entries) = 9

\* the i-th mark is a header with a corrupted CRC and the next one a data
\* field with a correct CRC
CorruptedHeader(i) ==
    /\ i \in DOMAIN fdc.capture /\ i + 1 \in DOMAIN fdc.capture
    /\ fdc.capture[i].k = "IDAM" /\ ~fdc.capture[i].crcOk
    /\ fdc.capture[i + 1].k = "DAM" /\ fdc.capture[i + 1].crcOk

\* the key the header at i is stored under
KeyOf(i) == (IF fdc.capture[i].sector < 1 THEN 1 ELSE fdc.capture[i].sector) - 1

\* C18 (as stated): for any capture in which a header with a corrupted CRC
\* is followed by a data field with a correct CRC, the list has an entry for
\* the sector and its error count is at least 1.
C18_AsStated ==
    \A i \in 1..MaxItems :
        (Decoded /\ CorruptedHeader(i)) =>
            /\ find_sector_entry(fdc.out.track, KeyOf(i)) # 0
            /\ EntryOf(KeyOf(i)).sector.numErrors >= 1

\* C18 (amended): the copy read behind a header with a corrupted CRC has an
\* error count of at least 1 even if its data CRC is correct; if the header
\* sector number is at most 22, the list has an entry under its key that was
\* read from the capture, which is this copy unless another copy of the same
\* sector number with no more errors was read; if the number is above 22
\* the copy is not in the list.
C18_CorruptedHeaderKept ==
    \A i \in 1..MaxItems :
        (Decoded /\ CorruptedHeader(i)) =>
            /\ \E c \in Copies :
                  c.data = i + 1 /\ c.sectorNumber = KeyOf(i) /\ c.numErrors >= 1
            /\ \A e \in DOMAIN Entries :
                  Entries[e].sector.data = i + 1 =>
                      Entries[e].sectorNumber = KeyOf(i)
                      /\ Entries[e].sector.numErrors >= 1
            /\ IF KeyOf(i) + 1 <= MaxSectorNumber
               THEN /\ find_sector_entry(fdc.out.track, KeyOf(i)) # 0
                    /\ ~IsPlaceholder(EntryOf(KeyOf(i)))
                    /\ \/ EntryOf(KeyOf(i)).sector.data = i + 1
                       \/ \E c, b \in Copies :
                             /\ c.data = i + 1
                             /\ b.sectorNumber = KeyOf(i) /\ b.data # i + 1
                             /\ b.numErrors <= c.numErrors
                             /\ b.data = EntryOf(KeyOf(i)).sector.data
               ELSE \A e \in DOMAIN Entries : Entries[e].sector.data # i + 1

\* the copy behind the corrupted header is the one in the list
C18_Witness ==
    /\ Decoded
    /\ CorruptedHeader(1)
    /\ find_sector_entry(fdc.out.track, KeyOf(1)) # 0
    /\ EntryOf(KeyOf(1)).sector.data = 2
    /\ EntryOf(KeyOf(1)).sector.numErrors >= 1

\* the corrupted header carries sector number 23: nothing is recorded
C18_AboveLimit ==
    /\ Decoded
    /\ CorruptedHeader(1)
    /\ fdc.capture[1].sector = 23
    /\ Entries = <<>>

\* a clean copy of the same sector is kept instead: error count 0
C18_CleanCopyKept ==
    /\ Decoded
    /\ \E i \in 1..MaxItems :
          /\ CorruptedHeader(i)
          /\ find_sector_entry(fdc.out.track, KeyOf(i)) # 0
          /\ EntryOf(KeyOf(i)).sector.numErrors = 0

\* the i-th mark is a header with sector field 0 and the next one its data
\* field
SectorZero(i) ==
    /\ i \in DOMAIN fdc.capture /\ i + 1 \in DOMAIN fdc.capture
    /\ fdc.capture[i].k = "IDAM" /\ fdc.capture[i].sector = 0
    /\ fdc.capture[i + 1].k = "DAM"

----------------------------------------------------------------------------
(* writeBit and readBit.  A buffer is a sequence of bytes, output[pos] of   *)
(* the code is output[pos + 1] here.  Both return the buffer or the bit     *)
(* together with the cursor they leave in *pos and *bit.                    *)

writeBit_at_index(output, pos, bit, value, maxLength) ==
    IF pos >= maxLength
    THEN [output |-> output, pos |-> pos, bit |-> bit]
    ELSE [output |-> [output EXCEPT ![pos + 1] =
                         IF (@ \div (2 ^ bit)) % 2 = 1 \/ value = 0
                         THEN @ ELSE @ + 2 ^ bit],
          pos |-> IF bit - 1 < 0 THEN pos + 1 ELSE pos,
          bit |-> IF bit - 1 < 0 THEN 7 ELSE bit - 1]

\* output[*pos] <<= 1 on an unsigned char; *bit counts the bits written to
\* the byte
writeBit(output, pos, bit, value, maxLength) ==
    IF pos >= maxLength
    THEN [output |-> output, pos |-> pos, bit |-> bit]
    ELSE [output |-> [output EXCEPT ![pos + 1] = ((@ * 2) % 256) + value],
          pos |-> IF bit + 1 >= 8 THEN pos + 1 ELSE pos,
          bit |-> IF bit + 1 >= 8 THEN 0 ELSE bit + 1]

\* *bit is the number of the bit that is read, 7 first; behind the buffer
\* the bits are made up from the cursor
readBit(buffer, maxLength, pos, bit) ==
    [ret |-> IF pos >= maxLength
             THEN IF ((IF bit - 1 < 0 THEN 7 ELSE bit - 1) % 2) = 1 THEN 0 ELSE 1
             ELSE (buffer[pos + 1] \div (2 ^ bit)) % 2,
     pos |-> IF bit - 1 < 0 THEN pos + 1 ELSE pos,
     bit |-> IF bit - 1 < 0 THEN 7 ELSE bit - 1]

----------------------------------------------------------------------------
(* SpecBits: a bit sequence is written with writeBit from a start cursor,   *)
(* then read back with readBit, either from the same cursor values or from  *)
(* the same position with bit = 7.  stream holds the buffer, both cursors   *)
(* and the bits written and read.                                           *)

MaxBits == 9
BufferLength == 2

BitsInit ==
    /\ priv = arduino_interface_create
    /\ io = <<>>
    /\ last = NoLast
    /\ sync = Idle
    /\ hw = NoMotor
    /\ dev = NoDevice
    /\ fdc = NoFdc
    /\ \E fill \in {0, 255}, pos \in 0..(BufferLength - 1), bit \in 0..7 :
          stream = [pc |-> "write", output |-> [i \in 1..BufferLength |-> fill],
                    start |-> [pos |-> pos, bit |-> bit],
                    pos |-> pos, bit |-> bit, written |-> <<>>,
                    from |-> [pos |-> pos, bit |-> bit], read |-> <<>>]

\* writeBit(output, &pos, &bit, value, maxLength)
WriteBit ==
    /\ stream.pc = "write"
    /\ Len(stream.written) < MaxBits
    /\ \E value \in {0, 1} :
       \E w \in {writeBit(stream.output, stream.pos, stream.bit, value, BufferLength)} :
          stream' = [stream EXCEPT !.output = w.output, !.pos = w.pos, !.bit = w.bit,
                                   !.written = Append(@, value)]
    /\ UNCHANGED <<priv, io, last, sync, hw, dev, fdc>>

\* the reader takes up the region at the writer's start position
Rewind ==
    /\ stream.pc = "write"
    /\ stream.written # <<>>
    /\ \E bit \in {stream.start.bit, 7} :
          stream' = [stream EXCEPT !.pc = "read", !.pos = stream.start.pos,
                                   !.bit = bit,
                                   !.from = [pos |-> stream.start.pos, bit |-> bit]]
    /\ UNCHANGED <<priv, io, last, sync, hw, dev, fdc>>

\* b = readBit(buffer, maxLength, &pos, &bit)
ReadBit ==
    /\ stream.pc = "read"
    /\ Len(stream.read) < Len(stream.written)
    /\ \E r \in {readBit(stream.output, BufferLength, stream.pos, stream.bit)} :
          stream' = [stream EXCEPT !.pos = r.pos, !.bit = r.bit,
                                   !.read = Append(@, r.ret)]
    /\ UNCHANGED <<priv, io, last, sync, hw, dev, fdc>>

BitsNext == WriteBit \/ Rewind \/ ReadBit

SpecBits == BitsInit /\ [][BitsNext]_vars

ReadBack == stream.pc = "read" /\ Len(stream.read) = Len(stream.written)

\* C20 (as stated): for every start cursor (pos, bit) within the buffer and
\* every bit sequence, the bits read with readBit from the same (pos, bit)
\* are the bits written with writeBit.
C20_AsStated ==
    (ReadBack /\ stream.from = stream.start) => stream.read = stream.written

\* C20 (amended): when the sequence is written from (pos, 0) and read from
\* (pos, 7), the bits read are the bits written for every byte the sequence
\* filled completely within the buffer.
C20_WholeBytes ==
    (stream.pc = "read" /\ stream.start.bit = 0 /\ stream.from.bit = 7) =>
        \A j \in DOMAIN stream.read :
            (j <= 8 * (Len(stream.written) \div 8)
             /\ stream.start.pos + ((j - 1) \div 8) < BufferLength)
                => stream.read[j] = stream.written[j]

\* a byte with both bit values was written from (0, 0) and read back from
\* (0, 7)
C20_Witness ==
    /\ ReadBack
    /\ stream.start = [pos |-> 0, bit |-> 0]
    /\ stream.from = [pos |-> 0, bit |-> 7]
    /\ Len(stream.written) = 8
    /\ stream.written[1] = 1 /\ stream.written[2] = 0 /\ stream.written[8] = 0
    /\ stream.read = stream.written

\* written and read from (0, 7): the first bit read is not the first written
C20_SameCursor ==
    /\ ReadBack
    /\ stream.start = [pos |-> 0, bit |-> 7]
    /\ stream.from = stream.start
    /\ stream.read[1] # stream.written[1]

----------------------------------------------------------------------------
(* crc16: the CRC of the header and data fields, on 16-bit words.           *)

\* a ^ b on words of n bits
RECURSIVE BitXor(_, _, _)
BitXor(a, b, n) ==
    IF n = 0 THEN 0
    ELSE (((a % 2) + (b % 2)) % 2) + 2 * BitXor(a \div 2, b \div 2, n - 1)

\* wCrc = wCrc & 0x8000 ? (wCrc << 1) ^ 0x1021 : wCrc << 1, i more times
RECURSIVE crc16_shifted(_, _)
crc16_shifted(wCrc, i) ==
    IF i = 0 THEN wCrc
    ELSE crc16_shifted(IF wCrc >= 32768
                       THEN BitXor((wCrc * 2) % 65536, 4129, 16)
                       ELSE (wCrc * 2) % 65536,
                       i - 1)

\* wCrc after the while loop of crc16 has taken the first `length` bytes
RECURSIVE crc16_loop(_, _, _)
crc16_loop(pData, length, wCrc) ==
    IF length = 0 THEN wCrc
    ELSE CHOOSE crc \in {crc16_shifted(BitXor(w, pData[length] * 256, 16), 8) :
                            w \in {crc16_loop(pData, length - 1, wCrc)}} : TRUE

crc16_from_zero(pData, length, wCrc) == crc16_loop(pData, length, 0) % 65536

crc16(pData, length, wCrc) == crc16_loop(pData, length, wCrc) % 65536

----------------------------------------------------------------------------
(* SpecCrc: crc16 is computed for a buffer and an initial value, and then   *)
(* once more.  fdc holds the arguments and both results.                    *)

MaxCrcLength == 2

\* "123456789"
CheckString == <<49, 50, 51, 52, 53, 54, 55, 56, 57>>

CrcBuffers ==
    UNION {[1..len -> {0, 1, 65, 128, 255}] : len \in 0..MaxCrcLength}
    \cup {CheckString}

CrcInit ==
    /\ priv = arduino_interface_create
    /\ io = <<>>
    /\ last = NoLast
    /\ sync = Idle
    /\ stream = NoStream
    /\ hw = NoMotor
    /\ dev = NoDevice
    /\ fdc \in [pc : {"crc"}, pData : CrcBuffers, wCrc : {65535, 0, 7439},
                crc : {<<>>}]

\* crc = crc16(pData, length, wCrc)
Crc16 ==
    /\ fdc.pc = "crc"
    /\ fdc' = [fdc EXCEPT !.crc = Append(@, crc16(fdc.pData, Len(fdc.pData), fdc.wCrc)),
                          !.pc = IF Len(fdc.crc) = 0 THEN "crc" ELSE "done"]
    /\ UNCHANGED <<priv, io, last, sync, stream, hw, dev>>

CrcNext == Crc16

SpecCrc == CrcInit /\ [][CrcNext]_vars

C21_CheckValue ==
    /\ fdc.pc = "done"
    /\ fdc.pData = CheckString
    /\ fdc.wCrc = 65535
    /\ fdc.crc[2] = 10673

----------------------------------------------------------------------------
(* The sector handed out by read_sector_from_device (SpecDecode).           *)

LookedUp == fdc.pc = "served"

\* the decoded track has no usable entry for the requested sector
NoUsableEntry ==
    \/ find_sector_entry(fdc.out.track, fdc.sector - 1) = 0
    \/ fdc.out.track.sectors[find_sector_entry(fdc.out.track, fdc.sector - 1)]
          .sector.numErrors >= 255

\* C22: when the decoded track has no entry for the requested sector, or one
\* with 0xFF errors or more, the read still hands out 512 bytes: cylinder,
\* head, sector and the size code 2, then 0xAA throughout; every other
\* entry is handed out as its data.
C22_FillerSector ==
    LookedUp =>
        IF NoUsableEntry
        THEN fdc.buffer = [data |-> 0, taken |-> 0,
                           bytes |-> <<fdc.cylinder, fdc.head, fdc.sector, 2>>,
                           fill |-> 170]
        ELSE fdc.buffer.bytes = <<>> /\ fdc.buffer.taken = 512
             /\ fdc.buffer.data \in DOMAIN fdc.capture

\* sector 5 was not read and no sector count is expected: no entry
C22_Witness ==
    /\ LookedUp
    /\ fdc.sector = 5
    /\ fdc.expectedNumSectors = 0
    /\ find_sector_entry(fdc.out.track, 4) = 0
    /\ fdc.buffer.fill = 170
    /\ fdc.buffer.bytes = <<3, fdc.head, 5, 2>>

\* the entry of sector 5 is a placeholder: too many errors
C22_Placeholder ==
    /\ LookedUp
    /\ fdc.sector = 5
    /\ find_sector_entry(fdc.out.track, 4) # 0
    /\ NoUsableEntry
    /\ fdc.buffer.fill = 170

----------------------------------------------------------------------------
(* Which failures keep drawbridge_load from attaching the device            *)
(* (SpecAdapter).                                                           *)

\* the last handler was drawbridge_load, and its open_port call (transport
\* open and handshake) returned OK
LoadOpened ==
    /\ last.op = "load"
    /\ \E r \in {arduino_interface_open_port(arduino_interface_create, last.in.open)} :
          r.ret = "OK"

\* C23 (as stated): drawbridge_load fails to attach the device only when the
\* transport cannot be opened or the handshake fails: whenever open_port
\* returned OK the device is attached.
C23_AsStated == LoadOpened => dev.loaded

\* enable_reading failed: not attached
C23_EnableFailed ==
    /\ LoadOpened
    /\ last.in.motor # LoadOk.motor
    /\ ~dev.loaded

\* no disk in the drive: not attached
C23_NoDisk ==
    /\ LoadOpened
    /\ last.in.motor = LoadOk.motor
    /\ last.in.check # LoadOk.check
    /\ ~dev.loaded

\* the capacity switch failed: not attached
C23_SwitchFailed ==
    /\ LoadOpened
    /\ last.in.motor = LoadOk.motor /\ last.in.check = LoadOk.check
    /\ last.in.capacity # LoadOk.capacity
    /\ ~dev.loaded

\* the capacity detection failed: attached as a DD disk
C23_DetectionFailed ==
    /\ LoadOpened
    /\ last.in.density = [c |-> Nak, r2 |-> NoByte]
    /\ dev.loaded /\ ~dev.is_hd /\ dev.sectors = 9

----------------------------------------------------------------------------
(* SpecCancel: a streamed read_current_track taken byte by byte, with a     *)
(* second thread that calls abort_read_streaming.  abortSignalled and       *)
(* abortStreaming are plain fields written by that thread without a lock    *)
(* (the lock_guard of abort_read_streaming is commented out); the read loop *)
(* tests abortSignalled for every byte of a chunk.  A test made in the      *)
(* chunk in which the flag was raised may see either value.                 *)
(* stream holds the loop's locals (st), the bytes of the current chunk not  *)
(* yet handled (chunk), how the bytes of the chunk were handled (handled),  *)
(* the position of the second thread (canceller) and whether it raised the  *)
(* flag while this chunk was being handled (raised).                        *)

MaxCancelPolls == 3
MaxChunk == 3

CancelInit ==
    /\ \E dataLength \in {2, RAW_TRACKDATA_LENGTH_HD} :
          stream = [pc |-> "read", st |-> ReadLocals(dataLength), chunk |-> <<>>,
                    handled |-> <<>>, canceller |-> "idle", raised |-> FALSE,
                    polls |-> 0, echoed |-> 0]
    /\ priv = stream_armed([p |-> StreamSession(TRUE), ev |-> <<>>]).p
    /\ io = <<>>
    /\ last = NoLast
    /\ sync = Idle
    /\ hw = Quiet
    /\ dev = NoDevice
    /\ fdc = NoFdc

\* what serial_read may return for a request of up to n bytes
CancelChunks(n) ==
    {<<>>}
    \cup (IF stream.echoed = 0
          THEN {[i \in 1..len |-> "d"] : len \in 1..n}
          ELSE {})
    \cup (IF priv.abortStreaming /\ stream.echoed < Len(AbortEcho)
          THEN {<<AbortEcho[stream.echoed + 1]>>} ELSE {})

NoCheck == [w |-> 1, wf |-> 1, check |-> [c |-> Unasked, r2 |-> NoByte]]

\* the loop is at its end for this chunk: if (bytesRead < 1) ...
CancelPolled(x) ==
    \E y \in {stream_polled(x, NoCheck)} :
        /\ priv' = y.p
        /\ io' = io \o y.ev
        /\ stream' = [stream EXCEPT !.pc = IF y.p.isStreaming THEN "read" ELSE "returned",
                                    !.st = y.st, !.chunk = <<>>]
        /\ last' = IF y.p.isStreaming THEN last ELSE StreamReturned(y.st.ret)

\* serial_read(&priv->comPort, tempReadBuffer, priv->abortSignalled ? 1 : bytesAvailable)
CancelRead ==
    /\ stream.pc = "read"
    /\ stream.polls < MaxCancelPolls
    /\ \E chunk \in CancelChunks(IF priv.abortSignalled THEN 1 ELSE MaxChunk) :
          IF chunk = <<>>
          THEN CancelPolled([p |-> priv, st |-> [stream.st EXCEPT !.bytesRead = 0],
                             ev |-> <<>>])
          ELSE /\ stream' = [stream EXCEPT !.pc = "bytes", !.chunk = chunk,
                                           !.handled = <<>>, !.raised = FALSE,
                                           !.polls = @ + 1,
                                           !.st.bytesRead = Len(chunk),
                                           !.echoed = IF chunk[1] # "d" THEN @ + 1 ELSE @]
               /\ UNCHANGED <<priv, io, last>>
    /\ UNCHANGED <<sync, hw, dev, fdc>>

\* one pass of for (a = 0; a < bytesRead; a++); seen: the value the test of
\* priv->abortSignalled gives
CancelByte ==
    /\ stream.pc = "bytes"
    /\ stream.chunk # <<>>
    /\ stream.st.bytesRead # 0
    /\ \E seen \in (IF stream.raised THEN BOOLEAN ELSE {priv.abortSignalled}) :
        \E x \in {stream_byte([p |-> [priv EXCEPT !.abortSignalled = seen],
                               st |-> stream.st, ev |-> <<>>],
                              Head(stream.chunk), 1)} :
            /\ priv' = [x.p EXCEPT !.abortSignalled = @ \/ priv.abortSignalled]
            /\ io' = io \o x.ev
            /\ stream' = [stream EXCEPT
                            !.st = x.st, !.chunk = Tail(@),
                            !.handled = Append(@, IF seen THEN "window" ELSE "data")]
    /\ UNCHANGED <<last, sync, hw, dev, fdc>>

\* the for loop over the chunk has ended
CancelChunkDone ==
    /\ stream.pc = "bytes"
    /\ stream.chunk = <<>> \/ stream.st.bytesRead = 0
    /\ CancelPolled([p |-> priv, st |-> stream.st, ev |-> <<>>])
    /\ UNCHANGED <<sync, hw, dev, fdc>>

\* second thread, abort_read_streaming up to priv->abortSignalled = true
CancelSignal ==
    /\ stream.canceller = "idle"
    /\ stream.pc # "returned"
    /\ IF ~priv.isStreaming \/ priv.abortStreaming
       THEN /\ stream' = [stream EXCEPT !.canceller = "done"]
            /\ UNCHANGED priv
       ELSE /\ priv' = [priv EXCEPT !.abortSignalled = TRUE]
            /\ stream' = [stream EXCEPT !.canceller = "signalled",
                                        !.raised = (stream.pc = "bytes")]
    /\ UNCHANGED <<io, last, sync, hw, dev, fdc>>

\* second thread, abort_read_streaming from serial_write on
CancelSend ==
    /\ stream.canceller = "signalled"
    /\ \E w \in {0, 1} :
        \E sw \in {serial_write(priv, SPECIAL_ABORT_CHAR, w)} :
            /\ io' = io \o sw.ev
            /\ priv' = IF sw.n = 0 THEN priv ELSE [priv EXCEPT !.abortStreaming = TRUE]
    /\ stream' = [stream EXCEPT !.canceller = "done"]
    /\ UNCHANGED <<last, sync, hw, dev, fdc>>

CancelNext ==
    CancelRead \/ CancelByte \/ CancelChunkDone \/ CancelSignal \/ CancelSend

SpecCancel == CancelInit /\ [][CancelNext]_vars

\* C24 (as stated): a cancellation raised by the second thread is acted on
\* only between chunks: as long as the read itself has not sent the abort
\* (the buffer is not full), all bytes of a chunk are handled the same way.
C24_AsStated ==
    (stream.st.writePosition < stream.st.dataLength) =>
        \A i, j \in DOMAIN stream.handled : stream.handled[i] = stream.handled[j]

\* the second thread raised the flag after the first byte of a chunk of
\* three: the other two went to the sliding window
C24_MidChunk ==
    /\ stream.st.writePosition < stream.st.dataLength
    /\ stream.canceller # "idle"
    /\ stream.handled = <<"data", "window", "window">>

----------------------------------------------------------------------------
(* SpecFlood: the read loops of read_current_track against a device that    *)
(* sends track bytes, with or without pauses, and never the abort echo or   *)
(* a zero byte.  hw.tick changes with every iteration of a loop.  The loop  *)
(* runs in the calling thread and every serial_read returns (with bytes or  *)
(* after its timeout), so an iteration that can be taken is taken.          *)

MaxFloodLength == 3

FloodInit ==
    /\ \E hd \in BOOLEAN, dataLength \in 1..MaxFloodLength :
          /\ priv = IF hd THEN stream_armed([p |-> StreamSession(TRUE), ev |-> <<>>]).p
                    ELSE StreamSession(FALSE)
          /\ stream = [pc |-> IF hd THEN "stream" ELSE "plain",
                       st |-> ReadLocals(dataLength)]
    /\ io = <<>>
    /\ last = NoLast
    /\ sync = Idle
    /\ hw = [tick |-> 0]
    /\ dev = NoDevice
    /\ fdc = NoFdc

\* one more iteration of a loop; x: what it left
Flooded(x, running) ==
    /\ priv' = x.p
    /\ io' = io \o x.ev
    /\ stream' = [pc |-> IF x.st.ret = "" THEN running ELSE "idle", st |-> x.st]
    /\ last' = IF x.st.ret = "" THEN last ELSE StreamReturned(x.st.ret)
    /\ hw' = [tick |-> 1 - hw.tick]
    /\ UNCHANGED <<sync, dev, fdc>>

\* one iteration of while (priv->isStreaming)
FloodStreamPoll ==
    /\ stream.pc = "stream"
    /\ \E chunk \in {<<>>, <<"d">>} \cup (IF priv.abortSignalled THEN {} ELSE {<<"d", "d">>}),
          check \in {[c |-> Ack, r2 |-> "1"], [c |-> Unasked, r2 |-> NoByte]} :
          Flooded(stream_poll(priv, stream.st, chunk,
                              [w |-> 1, wf |-> 1, check |-> check]), "stream")

\* one iteration of the for (;;) of the non-HD read
FloodPlainPoll ==
    /\ stream.pc = "plain"
    /\ \E r \in {"d", NoByte} : Flooded(plain_poll(priv, stream.st, r), "plain")

FloodNext == FloodStreamPoll \/ FloodPlainPoll

SpecFlood ==
    FloodInit /\ [][FloodNext]_vars
    /\ WF_vars(FloodStreamPoll) /\ WF_vars(FloodPlainPoll)

\* C25 (as stated): every call to read_current_track returns, whatever
\* bytes the device sends.
C25_AsStated == <>(stream.pc = "idle")

\* non-HD read: the buffer is full, no zero byte has come, the loop goes on
C25_PlainFlooded ==
    /\ stream.pc = "plain"
    /\ stream.st.bytePos = stream.st.dataLength
    /\ stream.st.readFail = 0
    /\ hw.tick = 0

\* streamed read: the abort went out, the device keeps sending track bytes,
\* which fill the sliding window; the loop goes on
C25_StreamFlooded ==
    /\ stream.pc = "stream"
    /\ priv.abortStreaming
    /\ stream.st.slidingWindow = <<"d", "d", "d", "d", "d">>
    /\ stream.st.readFail = 0

\* a device that stops sending: the read-fail counter ends the read
C25_Starved ==
    /\ stream.pc = "idle"
    /\ stream.st.starved

----------------------------------------------------------------------------
(* The firmware version of the session (Spec).                              *)

----------------------------------------------------------------------------
(* The kick of attempt_to_sync (SpecSync) *)

\* the poll that has just been made sent the version-query byte again
KickSent == sync'.g.kicks > sync.g.kicks

\* C27 as stated: the kick is sent on every 7th empty poll and only while no
\* byte at all has been received from the device since the sync attempt
\* started; once a byte has been received no further kick is sent.
C27_AsStated ==
    [][KickSent => /\ sync'.s.counterNoData % SyncKickPeriod = SyncKickPhase
                   /\ sync.g.received = 0]_vars

\* the half of it the loop keeps: a kick is sent on an empty poll, when the
\* count of empty polls is 6 more than a multiple of 7
C27_KickPeriod ==
    [][KickSent => /\ sync'.s.counterNoData % SyncKickPeriod = SyncKickPhase
                   /\ sync'.g.empties = sync.g.empties + 1
                   /\ sync.s.bytesRead = 0]_vars

\* the sync loop is running after the device delivered a byte that did not
\* complete a version reply, and bytesRead is back at zero
C27_ByteForgotten ==
    /\ sync.pc = "sync"
    /\ sync.g.received > 0
    /\ sync.s.bytesRead = 0


----------------------------------------------------------------------------
(* The code open_port returns when the transport cannot be opened (SpecSync) *)

\* open_port has returned from a call whose serial_open_port answered res
OpenAnswered(res) == OpenReturned /\ sync.g.opened = res

C28_TwoCausesTold ==
    /\ OpenAnswered("NOT_FOUND") => last.ret = "PORT_NOT_FOUND"
    /\ OpenAnswered("IN_USE") => last.ret = "PORT_IN_USE"
    /\ OpenAnswered("ACCESS_DENIED") => last.ret = "PORT_ERROR"
    /\ OpenAnswered("ERROR") => last.ret = "PORT_ERROR"

\* permission was denied and open_port returned the generic port error
C28_AccessDeniedLost ==
    /\ OpenAnswered("ACCESS_DENIED")
    /\ last.ret = "PORT_ERROR"
    /\ priv.lastError = "PORT_ERROR"
    /\ ~priv.isOpen


----------------------------------------------------------------------------
(* The caller's flag after check_disk_capacity (Spec) *)

\* check_disk_capacity has returned from a call in which the device
\* acknowledged the density query and then sent the byte r2
DensityReplied(r2) ==
    /\ last.op = "check_disk_capacity"
    /\ last.in.wasOpen
    /\ (priv.version.deviceFlags1 \div FLAGS_DENSITYDETECT_ENABLED) % 2 = 1
    /\ last.in.a.c = Ack
    /\ last.in.a.r2 = r2

\* C29: when the device answers the density check with 'D',
\* check_disk_capacity returns OK and sets diskInDrive, and the caller's isHD
\* flag is what it was before the call; the flag is set true for 'H', and set
\* false only when density detection is disabled.
C29_FlagLeftOnD ==
    /\ DensityReplied("D") =>
            /\ last.ret = "OK"
            /\ priv.diskInDrive
            /\ last.isHD = last.in.arg
    /\ DensityReplied("H") => last.isHD
    /\ (last.op = "check_disk_capacity" /\ ~last.isHD /\ last.in.arg) =>
            (priv.version.deviceFlags1 \div FLAGS_DENSITYDETECT_ENABLED) % 2 = 0

\* C29 witness: the caller's flag was true, the device answered 'D', and the
\* call returned OK with the flag still true
C29_Witness ==
    /\ DensityReplied("D")
    /\ last.in.arg
    /\ last.ret = "OK"
    /\ priv.diskInDrive
    /\ last.isHD

\* detection disabled: the flag was true and the call set it false without
\* a transport call
C29_DetectionDisabled ==
    /\ last.op = "check_disk_capacity"
    /\ last.in.arg
    /\ ~last.isHD
    /\ io = <<>>
    /\ last.ret = "OK"


----------------------------------------------------------------------------
(* The abort echo and the read-fail counter (SpecStream) *)

\* read_current_track has returned from the poll that read the last byte of
\* the abort echo
EchoReturned ==
    /\ stream.pc = "idle"
    /\ last.op = "read_current_track"
    /\ stream.echoed = Len(AbortEcho)

\* the read ended by leaving its loop: streaming stopped, the data was
\* unpacked and OK returned
ReadCompleted ==
    /\ last.ret = "OK"
    /\ priv.lastError = "OK"
    /\ ~priv.isStreaming
    /\ ~stream.st.starved

\* C30 as stated: once the abort byte has been sent and the device echoes
\* 'X','Y','Z','x','1', the read stops streaming and read_current_track
\* completes with OK, however many empty polls came before the echo.
C30_AsStated == EchoReturned => ReadCompleted

\* what holds: the echo completes the read when fewer than 30 polls of the
\* read were empty before it
C30_FewEmptyPolls ==
    (EchoReturned /\ stream.st.readFail <= StreamFailLimit) => ReadCompleted

\* the echo arrived after 30 empty polls and the read failed
C30_EchoAfterLimit ==
    /\ EchoReturned
    /\ stream.st.readFail = StreamFailLimit + 1
    /\ stream.st.starved
    /\ last.ret = "READ_RESPONSE_FAILED"

\* the echo arrived after 30 empty polls that did not come in one run
C30_ScatteredEmptyPolls ==
    /\ EchoReturned
    /\ stream.st.starved
    /\ stream.consec = 0

\* the echo completed a read in which some polls were empty
C30_EchoInTime ==
    /\ EchoReturned
    /\ stream.st.readFail > 1
    /\ ReadCompleted


----------------------------------------------------------------------------
(* The bytes stored by a streamed read (SpecStream) *)

AbortWrite == WriteEv(SPECIAL_ABORT_CHAR)

\* the transport calls the poll that has just been made added to the log
PollCalls == SubSeq(io', Len(io) + 1, Len(io'))

\* C31: during a streamed read at most dataLength bytes are stored; the abort
\* byte is written in the poll that brings the stored count to dataLength;
\* and a poll made after the abort was signalled stores nothing, its bytes
\* go to the sliding window only.
C31_StoredBounded ==
    [][stream.pc = "stream" =>
        /\ stream'.st.writePosition <= stream'.st.dataLength
        /\ (/\ stream.st.writePosition < stream.st.dataLength
            /\ stream'.st.writePosition = stream.st.dataLength)
                => (priv'.abortSignalled /\ \E k \in DOMAIN PollCalls : PollCalls[k] = AbortWrite)
        /\ priv.abortSignalled
                => stream'.st.writePosition = stream.st.writePosition
      ]_vars

\* C31 witness: a 1-byte buffer is full, the abort was signalled, and the
\* byte that followed in the same poll is in the sliding window
C31_Witness ==
    /\ stream.pc = "stream"
    /\ stream.st.dataLength = 1
    /\ stream.st.writePosition = 1
    /\ priv.abortSignalled
    /\ stream.st.slidingWindow[5] = "d"

\* a 2-byte buffer was filled by two polls, and bytes of the echo came after
C31_FilledInTwoPolls ==
    /\ stream.pc = "stream"
    /\ stream.st.dataLength = 2
    /\ stream.st.writePosition = 2
    /\ stream.st.slidingWindow[5] = "Y"


----------------------------------------------------------------------------
(* SpecRace: the start of a streamed read_current_track, one assignment    *)
(* per step, with the second thread of SpecCancel.  The three flags are     *)
(* plain fields and no lock is taken, so the call of the second thread may  *)
(* fall between any two of the assignments.  stream.pc is "arm1", "arm2",   *)
(* "arm3" before the assignments to isStreaming, abortStreaming and         *)
(* abortSignalled, then as in SpecCancel.                                   *)

\* the session when the stream-start command has been acknowledged: opened,
\* or after an earlier streamed read that its abort echo ended
RaceSessions ==
    {[Returned(run_command([StreamSession(TRUE) EXCEPT
                                !.lastCommand = "READ_TRACK_STREAM",
                                !.abortSignalled = earlier],
                           COMMAND_READTRACKSTREAM, NUL, Ack)).p
        EXCEPT !.lastError = "OK"] : earlier \in BOOLEAN}

RaceInit ==
    /\ priv \in RaceSessions
    /\ \E dataLength \in {2, RAW_TRACKDATA_LENGTH_HD} :
          stream = [pc |-> "arm1", st |-> ReadLocals(dataLength), chunk |-> <<>>,
                    handled |-> <<>>, canceller |-> "idle", raised |-> FALSE,
                    polls |-> 0, echoed |-> 0]
    /\ io = <<>>
    /\ last = NoLast
    /\ sync = Idle
    /\ hw = Quiet
    /\ dev = NoDevice
    /\ fdc = NoFdc

\* priv->isStreaming = true;
ArmStreaming ==
    /\ stream.pc = "arm1"
    /\ priv' = [priv EXCEPT !.isStreaming = TRUE]
    /\ stream' = [stream EXCEPT !.pc = "arm2"]
    /\ UNCHANGED <<io, last, sync, hw, dev, fdc>>

\* priv->abortStreaming = false;
ArmAbortStreaming ==
    /\ stream.pc = "arm2"
    /\ priv' = [priv EXCEPT !.abortStreaming = FALSE]
    /\ stream' = [stream EXCEPT !.pc = "arm3"]
    /\ UNCHANGED <<io, last, sync, hw, dev, fdc>>

\* priv->abortSignalled = false;
ArmAbortSignalled ==
    /\ stream.pc = "arm3"
    /\ priv' = [priv EXCEPT !.abortSignalled = FALSE]
    /\ stream' = [stream EXCEPT !.pc = "read"]
    /\ UNCHANGED <<io, last, sync, hw, dev, fdc>>

\* the second thread calls abort_read_streaming while isStreaming is true
RaceSignal == priv.isStreaming /\ CancelSignal

RaceNext ==
    \/ ArmStreaming
    \/ ArmAbortStreaming
    \/ ArmAbortSignalled
    \/ RaceSignal
    \/ CancelSend
    \/ CancelRead
    \/ CancelByte
    \/ CancelChunkDone

SpecRace == RaceInit /\ [][RaceNext]_vars

\* the second thread has returned from abort_read_streaming
AbortCalled == stream.canceller = "done"

\* the read loop is running
LoopRuns == stream.pc \in {"read", "bytes"} /\ priv.isStreaming

\* C32 as stated: an abort_read_streaming call made by a second thread while
\* isStreaming is true is never lost: abortSignalled is set while the loop
\* runs after it, also when the call falls into the start of the read.
C32_AsStated == (AbortCalled /\ LoopRuns) => priv.abortSignalled

\* the abort byte of the second thread was written and the loop runs with
\* abortSignalled cleared
C32_LostAfterWrite ==
    /\ AbortCalled
    /\ LoopRuns
    /\ io = <<AbortWrite>>
    /\ ~priv.abortSignalled

\* the call found abortStreaming still set from before the read and did
\* nothing, and the read then cleared the flag
C32_LostWithoutWrite ==
    /\ AbortCalled
    /\ LoopRuns
    /\ io = <<>>
    /\ ~priv.abortSignalled
    /\ ~priv.abortStreaming

\* a byte of the echo was stored as track data
C32_EchoStored ==
    /\ AbortCalled
    /\ stream.echoed > 0
    /\ stream.handled # <<>>
    /\ stream.handled[Len(stream.handled)] = "data"


----------------------------------------------------------------------------
(* The abort bytes of one streamed read (SpecCancel, SpecStream) *)

\* the writes of the abort byte since the read started
AbortWrites == {k \in DOMAIN io : io[k] = AbortWrite}

\* C33 as stated: during one streamed read at most one abort byte is written
\* to the transport, whoever triggers the abort.
C33_AsStated == Cardinality(AbortWrites) <= 1

\* both threads passed the test of abortStreaming before either had set it:
\* the read wrote the abort byte for its full buffer and the second thread
\* wrote it again
C33_TwoThreads ==
    /\ stream.pc \in {"read", "bytes"}
    /\ stream.canceller = "done"
    /\ ~stream.st.starved
    /\ stream.st.writePosition = stream.st.dataLength
    /\ Cardinality(AbortWrites) = 2

\* one thread: the abort byte was written for the full buffer, and again
\* when the read-fail limit was passed
C33_FullThenStalled ==
    /\ stream.pc = "idle"
    /\ last.op = "read_current_track"
    /\ stream.st.starved
    /\ stream.st.writePosition = stream.st.dataLength
    /\ Cardinality(AbortWrites) = 2


----------------------------------------------------------------------------
(* The session after a failed open_port (SpecSync) *)

\* C34 as stated: whenever open_port returns a code other than OK the port
\* is closed, on every failure path.
C34_AsStated == (OpenReturned /\ last.ret # "OK") => ~priv.isOpen

\* the paths that do close it: the transport did not open, or the sync
\* failed and the reset sequence ran
C34_ClosedPaths ==
    (/\ OpenReturned
     /\ \/ sync.g.opened # "OK"
        \/ sync.g.cfg /\ sync.g.syncRet \notin {"", "OK"})
        => (last.ret # "OK" /\ ~priv.isOpen)

\* the port opened, its configuration failed, and open_port returned
\* PORT_ERROR with the port open
C34_ConfigFailedOpen ==
    /\ OpenReturned
    /\ sync.g.opened = "OK"
    /\ ~sync.g.cfg
    /\ last.ret = "PORT_ERROR"
    /\ priv.isOpen

\* the sync succeeded, the check-features command failed, and open_port
\* returned its code with the port open
C34_FeaturesFailedOpen ==
    /\ OpenReturned
    /\ sync.g.syncRet = "OK"
    /\ sync.g.feat.r # "1"
    /\ last.ret # "OK"
    /\ priv.isOpen

\* the sync failed and the port was closed by the reset sequence
C34_SyncFailedClosed ==
    /\ OpenReturned
    /\ sync.g.syncRet = "ERROR_READING_VERSION"
    /\ sync.g.reopen = "OK"
    /\ last.ret = "ERROR_READING_VERSION"
    /\ ~priv.isOpen


----------------------------------------------------------------------------
(* The version reply and the kick (SpecSync) *)

\* the first five bytes the device delivered in this handshake form a
\* version reply
ReplyDelivered ==
    /\ sync.g.received = 5
    /\ SyncMatch(sync.g.rx)

\* C35 as stated: the handshake recognises a version reply whenever its five
\* bytes arrive consecutively, whatever empty polls and kick writes fall
\* between their arrivals.
C35_AsStated == ReplyDelivered => sync.g.syncRet = "OK"

\* what holds: the reply is recognised when no kick was written before its
\* last byte arrived
C35_NoKick == (ReplyDelivered /\ sync.g.kicks = 0) => sync.g.syncRet = "OK"

\* four bytes of the reply had arrived, the kick wrote the query byte over
\* the first of them, and the fifth byte did not complete a match
C35_ReplyOverwritten ==
    /\ sync.pc = "sync"
    /\ sync.g.rx = Reply95
    /\ sync.g.received = 5
    /\ sync.g.kicks = 1
    /\ sync.s.buffer = <<"V", "9", ",", "5", "5">>

\* empty polls between the bytes, fewer than a kick takes, and the reply
\* was recognised
C35_GapsOnly ==
    /\ ReplyDelivered
    /\ sync.g.empties > 0
    /\ sync.g.kicks = 0
    /\ sync.g.syncRet = "OK"


----------------------------------------------------------------------------
(* SpecExtract: the bit indices findSectors_IBM reads from a capture, one   *)
(* bit per step.  fdc holds the length of the capture in bits, the bit at   *)
(* which the scan has just shifted in the last bit of a sync mark, the      *)
(* calls of extractMFMDecodeRaw still to make for that mark, the cursor of  *)
(* the call in progress, the index of the bit read last (read) and whether  *)
(* that was the first read of its call (first).  The scan up to the mark    *)
(* is not stepped: every one of its reads is at bit, below the loop bound.  *)
(* The uint32_t values are kept as integers: bit + 1 - 64 is -1 for         *)
(* bit = 62, where the C value is 2^32 - 1, and the + 1 of                  *)
(* extractMFMDecodeRaw gives 0 for both.  A data mark is taken after a      *)
(* header was found, the case in which its payload is extracted.            *)

SyncMarkBits == 64        \* the width of the shift register and of a sync mark
HeaderBytes  == 10        \* sizeof(IBMSectorHeader)
DataMarkBytes == 4        \* sizeof(sector.data.dataMark)
DataCrcBytes == 2         \* sizeof(sector.data.crc)

\* 1 << (7 + sector.header.length)
sectorDataSize(length) == 2 ^ (7 + length)

\* the values of header.length tried: 128-byte and 512-byte sectors
SectorLengths == {0, 2}

\* the capture of a DD track, in bits
CaptureBits == RAW_TRACKDATA_LENGTH_DD * 8

\* the first bit at which the register can hold a mark (the top bit of every
\* mark is 0), the bit after it, and the bits around the end of the capture
\* at which the payload or the CRC of a sector starts at or after the end
MarkEnds(length) ==
    {SyncMarkBits - 2, SyncMarkBits - 1,
     CaptureBits - 3 - 16 * sectorDataSize(length),
     CaptureBits - 2 - 16 * sectorDataSize(length),
     CaptureBits - 3, CaptureBits - 2, CaptureBits - 1}

Extract(bitPos, outputBytes, what) ==
    [bitPos |-> bitPos, outputBytes |-> outputBytes, what |-> what]

\* the calls of extractMFMDecodeRaw for a sector header mark found at bit
header_extracted(bit) == <<Extract(bit + 1 - SyncMarkBits, HeaderBytes, "header")>>

\* the calls of extractMFMDecodeRaw for a data mark found at bit
data_extracted(bit, length) ==
    <<Extract(bit + 1 - SyncMarkBits, DataMarkBytes, "dataMark"),
      Extract(bit + 1 - SyncMarkBits + 4 * 8 * 2, sectorDataSize(length), "data"),
      Extract(bit + 1 - SyncMarkBits + 4 * 8 * 2 + sectorDataSize(length) * 8 * 2,
              DataCrcBytes, "crc")>>

\* extractMFMDecodeRaw: the cursor before the first read
extractMFMDecodeRaw_begin(dataLengthInBits, bitPos) == bitPos + 1

\* extractMFMDecodeRaw: the cursor after a read
extractMFMDecodeRaw_next(dataLengthInBits, realBitPos) ==
    (realBitPos + 2) % dataLengthInBits

ExtractInit ==
    /\ \E mark \in {"header", "data"} :
        \E length \in (IF mark = "data" THEN SectorLengths ELSE {2}) :
          \E bit \in MarkEnds(length) :
            fdc = [pc |-> "scan", dataLengthInBits |-> CaptureBits, bit |-> bit,
                   mark |-> mark, length |-> length, calls |-> <<>>,
                   what |-> "scan", realBitPos |-> 0, bitsLeft |-> 0,
                   read |-> 0, first |-> FALSE, entered |-> FALSE]
    /\ priv = arduino_interface_create
    /\ io = <<>>
    /\ last = NoLast
    /\ sync = Idle
    /\ stream = NoStream
    /\ hw = Quiet
    /\ dev = NoDevice

\* the pass of the scan loop that shifts in the last bit of the mark
ScanBit ==
    /\ fdc.pc = "scan"
    /\ fdc' = [fdc EXCEPT
                !.pc = "call",
                !.read = fdc.bit % fdc.dataLengthInBits,
                !.calls = IF fdc.mark = "header" THEN header_extracted(fdc.bit)
                          ELSE data_extracted(fdc.bit, fdc.length)]
    /\ UNCHANGED <<priv, io, last, sync, stream, hw, dev>>

\* extractMFMDecodeRaw is entered
ExtractBegin ==
    /\ fdc.pc = "call"
    /\ fdc.calls # <<>>
    /\ fdc' = [fdc EXCEPT
                !.pc = "bits",
                !.what = Head(fdc.calls).what,
                !.realBitPos = extractMFMDecodeRaw_begin(fdc.dataLengthInBits,
                                                         Head(fdc.calls).bitPos),
                !.bitsLeft = 8 * Head(fdc.calls).outputBytes,
                !.entered = TRUE,
                !.calls = Tail(fdc.calls)]
    /\ UNCHANGED <<priv, io, last, sync, stream, hw, dev>>

\* one pass of the inner loop of extractMFMDecodeRaw: a bit is read at
\* realBitPos and the cursor moves on
ExtractBit ==
    /\ fdc.pc = "bits"
    /\ fdc' = [fdc EXCEPT
                !.read = fdc.realBitPos,
                !.first = fdc.entered,
                !.entered = FALSE,
                !.realBitPos = extractMFMDecodeRaw_next(fdc.dataLengthInBits,
                                                        fdc.realBitPos),
                !.bitsLeft = fdc.bitsLeft - 1,
                !.pc = IF fdc.bitsLeft > 1 THEN "bits"
                       ELSE IF fdc.calls # <<>> THEN "call" ELSE "done"]
    /\ UNCHANGED <<priv, io, last, sync, stream, hw, dev>>

ExtractNext == ScanBit \/ ExtractBegin \/ ExtractBit

SpecExtract == ExtractInit /\ [][ExtractNext]_vars

\* a bit has been read from the capture
BitRead == fdc.pc \in {"call", "bits", "done"}

\* C36 as stated: every bit index the decoder reads from the capture is
\* smaller than bitLength.
C36_AsStated == BitRead => fdc.read < fdc.dataLengthInBits

\* what holds: the scan, the header, the data mark, and every read of a call
\* but its first one stay inside the capture
C36_WrappedAfterFirst ==
    (BitRead /\ (fdc.what \in {"scan", "header", "dataMark"} \/ ~fdc.first))
        => (fdc.read >= 0 /\ fdc.read < fdc.dataLengthInBits)

\* the data mark ended on the last bit of the capture and the first bit of
\* the payload was read one past the end
C36_PayloadPastEnd ==
    /\ fdc.what = "data"
    /\ fdc.first
    /\ fdc.bit = fdc.dataLengthInBits - 1
    /\ fdc.read = fdc.dataLengthInBits + 1

\* a 512-byte sector whose payload runs over the end of the capture: the
\* first bit of its CRC was read at the full offset, 8190 bits past the end
C36_CrcPastEnd ==
    /\ fdc.what = "crc"
    /\ fdc.first
    /\ fdc.length = 2
    /\ fdc.bit = fdc.dataLengthInBits - 3
    /\ fdc.read = fdc.dataLengthInBits + 8191

\* a mark found after 63 bits: the header is read from bit 0
C36_EarliestMark ==
    /\ fdc.what = "header"
    /\ fdc.first
    /\ fdc.bit = SyncMarkBits - 2
    /\ fdc.read = 0


----------------------------------------------------------------------------
(* Which copies read_sector_from_device hands out (SpecDecode) *)

\* the entry of the requested sector in the decoded track
RequestedEntry ==
    fdc.out.track.sectors[find_sector_entry(fdc.out.track, fdc.sector - 1)].sector

\* the buffer is the 0xAA pattern stamped with cylinder, head, sector, 2
FillerServed ==
    fdc.buffer = [data |-> 0, taken |-> 0,
                  bytes |-> <<fdc.cylinder, fdc.head, fdc.sector, 2>>, fill |-> 170]

\* the buffer is the payload read at the data mark the entry was decoded from
CopyServed ==
    /\ fdc.buffer.bytes = <<>>
    /\ fdc.buffer.taken = 512
    /\ fdc.buffer.data \in DOMAIN fdc.capture
    /\ fdc.capture[fdc.buffer.data].k = "DAM"
    /\ fdc.buffer.data = RequestedEntry.data

\* C37 (amended): the bytes handed out by the lookup are the payload of the
\* decoded copy whenever that copy has fewer than 0xFF errors, header errors
\* and a failed data CRC included, and the stamped 0xAA pattern otherwise.
C37_FlawedCopiesServed ==
    LookedUp =>
        /\ CopyServed \/ FillerServed
        /\ CopyServed => RequestedEntry.numErrors < 255
        /\ (/\ find_sector_entry(fdc.out.track, fdc.sector - 1) # 0
            /\ RequestedEntry.numErrors \in 1..254) => CopyServed

\* C37 witness: the only copy of sector 5 has a good header and a failed
\* data CRC, and its payload was handed out
C37_Witness ==
    /\ LookedUp
    /\ fdc.sector = 5
    /\ find_sector_entry(fdc.out.track, 4) # 0
    /\ RequestedEntry.numErrors = 1
    /\ CopyServed
    /\ ~fdc.capture[fdc.buffer.data].crcOk

\* C37 as stated: the bytes handed out are the payload of a copy with no
\* error or a fill pattern; a copy with a header error or a failed data CRC
\* is never served.
C37_AsStated ==
    LookedUp =>
        \/ FillerServed
        \/ /\ CopyServed
           /\ RequestedEntry.numErrors = 0

\* a copy whose header failed its CRC was handed out
C37_HeaderErrorServed ==
    /\ LookedUp
    /\ CopyServed
    /\ RequestedEntry.numErrors = 1
    /\ fdc.capture[fdc.buffer.data].crcOk


----------------------------------------------------------------------------
(* SpecSyncFree: the loop of attempt_to_sync against a transport that may   *)
(* answer any poll with a byte or with nothing, in any order, while the     *)
(* clock of the 8-second timeout stands still.  The bytes never complete a  *)
(* version reply and the kicks are accepted, so only the two counters can   *)
(* end the loop.                                                            *)

\* the session and the locals when the loop is entered: port opened and
\* configured, the three bytes of the query written
SyncEntered ==
    open_port_begin(arduino_interface_create,
                    [close |-> Unasked, open |-> "OK", cfg |-> TRUE, w0 |-> 3])

SyncFreeInit ==
    /\ priv = SyncEntered.p
    /\ io = <<>>
    /\ last = NoLast
    /\ sync = [pc |-> "sync", s |-> SyncEntered.s,
               g |-> [NoGhost EXCEPT !.opened = "OK", !.opens = 1]]
    /\ stream = NoStream
    /\ hw = Quiet
    /\ dev = NoDevice
    /\ fdc = NoFdc

\* one iteration of the loop; the kick writes are not kept in the log
SyncFreePoll ==
    /\ sync.pc = "sync"
    /\ \E r \in {"z", NoByte} :
        \E it \in {SyncIter(priv, sync.s, [timeout |-> FALSE, r |-> r, kw |-> 1])} :
            sync' = [pc |-> IF it.s.ret = "" THEN "sync" ELSE "post", s |-> it.s,
                     g |-> [sync.g EXCEPT
                             !.empties = IF r = NoByte THEN @ + 1 ELSE @,
                             !.received = IF r # NoByte THEN @ + 1 ELSE @,
                             !.syncRet = it.s.ret]]
    /\ UNCHANGED <<priv, io, last, stream, hw, dev, fdc>>

SyncFreeNext == SyncFreePoll

SpecSyncFree == SyncFreeInit /\ [][SyncFreeNext]_vars

\* C38: attempt_to_sync returns, whatever the transport does and even if
\* the clock never advances, after at most 2050 non-empty reads and at most
\* 122 empty polls: the loop is not running once either count is reached.
C38_SyncBounded ==
    /\ sync.g.received <= SyncDataLimit + 2
    /\ sync.g.empties <= SyncNoDataLimit + 2
    /\ sync.g.received = SyncDataLimit + 2 => sync.g.syncRet = "ERROR_MALFORMED_VERSION"
    /\ sync.g.empties = SyncNoDataLimit + 2 => sync.g.syncRet = "ERROR_READING_VERSION"
    /\ sync.g.syncRet # "" => sync.pc = "post"

\* C38 witness: the loop returned on the 122nd empty poll, after 2049 bytes
\* had come in between the empty polls
C38_Witness ==
    /\ sync.pc = "post"
    /\ sync.g.empties = SyncNoDataLimit + 2
    /\ sync.g.received = SyncDataLimit + 1
    /\ sync.s.counterData = SyncDataLimit + 1
    /\ sync.g.syncRet = "ERROR_READING_VERSION"

\* the loop returned on the 2050th byte, after 121 empty polls
C38_DataLimit ==
    /\ sync.pc = "post"
    /\ sync.g.received = SyncDataLimit + 2
    /\ sync.g.empties = SyncNoDataLimit + 1
    /\ sync.g.syncRet = "ERROR_MALFORMED_VERSION"


----------------------------------------------------------------------------
(* The byte on which attempt_to_sync gives up (SpecSyncFree) *)

\* C39 as stated: the sync attempt gives up with ERROR_MALFORMED_VERSION
\* when the 2049th non-matching byte is received, not one byte later.
C39_AsStated ==
    sync.g.received = SyncDataLimit + 1 => sync.g.syncRet = "ERROR_MALFORMED_VERSION"

\* 2049 bytes have been received and the loop is polling for more
C39_StillPolling ==
    /\ sync.pc = "sync"
    /\ sync.g.received = SyncDataLimit + 1
    /\ sync.g.empties = 0
    /\ sync.s.counterData = SyncDataLimit + 1

\* the loop gave up on the 2050th byte
C39_OneByteLater ==
    /\ sync.pc = "post"
    /\ sync.g.received = SyncDataLimit + 2
    /\ sync.g.empties = 0
    /\ sync.g.syncRet = "ERROR_MALFORMED_VERSION"

\* what holds: the loop gives up with ERROR_MALFORMED_VERSION exactly when
\* the 2050th byte is received
C39_OnByte2050 ==
    (sync.g.syncRet = "ERROR_MALFORMED_VERSION") <=> (sync.g.received = SyncDataLimit + 2)

====
